---- MODULE Spec2Model ----
(***************************************************************************)
(* A model of prin (giladbarnea/printfiles): the depth-first printer of    *)
(* src/src/prin/core.py, the exclusion and extension filters of            *)
(* src/src/prin/filters.py, the emptiness classifier, and the rate-limit   *)
(* retry of the GitHub adapter (src/src/prin/adapters/github.py).          *)
(*                                                                         *)
(* Python strings are TLA+ strings; Len, SubSeq and \o act on them as on   *)
(* sequences of one-character strings.                                     *)
(***************************************************************************)
EXTENDS Integers, Sequences, FiniteSets, TLC

(***************************************************************************)
(* Strings                                                                 *)
(***************************************************************************)

\* s[i] of Python (1-based here)
Ch(s, i) == SubSeq(s, i, i)

\* c in s, for a one-character c
HasChar(s, c) == \E i \in 1..Len(s) : Ch(s, i) = c

\* s.startswith(p)
startswith(s, p) == Len(p) <= Len(s) /\ SubSeq(s, 1, Len(p)) = p

\* s.endswith(p)
endswith(s, p) == Len(p) <= Len(s) /\ SubSeq(s, Len(s) - Len(p) + 1, Len(s)) = p

\* p in s, for strings
contains(s, p) == \E i \in 0..(Len(s) - Len(p)) : SubSeq(s, i + 1, i + Len(p)) = p

\* s.rfind(c): the last 0-based index of the character c, or -1
rfind(s, c) ==
    IF HasChar(s, c)
    THEN (CHOOSE i \in 1..Len(s) :
            Ch(s, i) = c /\ \A j \in (i + 1)..Len(s) : Ch(s, j) # c) - 1
    ELSE -1

\* the printable ASCII characters in code order, without the double quote (34),
\* the backslash (92) and the backtick (96), which no name of the model uses
AsciiLow == " !"
AsciiMid == "#$%&'()*+,-./0123456789:;<=>?@ABCDEFGHIJKLMNOPQRSTUVWXYZ["
AsciiHigh == "]^_"
AsciiTop == "abcdefghijklmnopqrstuvwxyz{|}~"

\* the characters above, and the code of each
Ascii == AsciiLow \o AsciiMid \o AsciiHigh \o AsciiTop
CharCode ==
    [c \in {Ch(Ascii, i) : i \in 1..Len(Ascii)} |->
        IF HasChar(AsciiLow, c) THEN 32 + rfind(AsciiLow, c)
        ELSE IF HasChar(AsciiMid, c) THEN 35 + rfind(AsciiMid, c)
        ELSE IF HasChar(AsciiHigh, c) THEN 93 + rfind(AsciiHigh, c)
        ELSE 97 + rfind(AsciiTop, c)]

\* ord(c)
Ord(c) == CharCode[c]

\* chr(n), for the codes Ord gives
Chr(n) == CHOOSE c \in DOMAIN CharCode : CharCode[c] = n

\* c.lower() for every character: A-Z become a-z
LowerChar ==
    [c \in DOMAIN CharCode |->
        IF CharCode[c] >= 65 /\ CharCode[c] <= 90 THEN Chr(CharCode[c] + 32) ELSE c]

\* str.casefold / str.lower on ASCII
RECURSIVE casefold(_)
casefold(s) ==
    IF Len(s) = 0 THEN ""
    ELSE LowerChar[Ch(s, 1)] \o casefold(SubSeq(s, 2, Len(s)))

\* a < b for Python strings (lexicographic by code point)
RECURSIVE StrLess(_, _)
StrLess(a, b) ==
    IF Len(b) = 0 THEN FALSE
    ELSE IF Len(a) = 0 THEN TRUE
    ELSE IF Ch(a, 1) = Ch(b, 1)
         THEN StrLess(SubSeq(a, 2, Len(a)), SubSeq(b, 2, Len(b)))
         ELSE Ord(Ch(a, 1)) < Ord(Ch(b, 1))

\* s.split("/")
RECURSIVE Split(_)
Split(s) ==
    IF ~HasChar(s, "/") THEN <<s>>
    ELSE LET i == CHOOSE k \in 1..Len(s) :
                    Ch(s, k) = "/" /\ \A j \in 1..(k - 1) : Ch(s, j) # "/"
         IN <<SubSeq(s, 1, i - 1)>> \o Split(SubSeq(s, i + 1, Len(s)))

\* "/".join(parts)
RECURSIVE Join(_)
Join(parts) ==
    IF Len(parts) = 0 THEN ""
    ELSE IF Len(parts) = 1 THEN parts[1]
    ELSE parts[1] \o "/" \o Join(Tail(parts))

(***************************************************************************)
(* pathlib                                                                 *)
(***************************************************************************)

\* the components pathlib keeps: empty and "." components are dropped
RECURSIVE Parts(_)
Parts(segs) ==
    IF Len(segs) = 0 THEN <<>>
    ELSE IF segs[1] = "" \/ segs[1] = "." THEN Parts(Tail(segs))
    ELSE <<segs[1]>> \o Parts(Tail(segs))

\* str(PurePosixPath(s)): repeated and trailing slashes and "." components
\* are removed, ".." is kept, the empty path is "."
PurePosixPath(s) ==
    LET body == Join(Parts(Split(s)))
    IN IF startswith(s, "/") THEN "/" \o body
       ELSE IF body = "" THEN "." ELSE body

\* PurePosixPath.name
PathName(p) ==
    LET ps == Parts(Split(p)) IN IF Len(ps) = 0 THEN "" ELSE ps[Len(ps)]

\* PurePosixPath.stem: the name without its last suffix
PathStem(p) ==
    LET name == PathName(p)
        i == rfind(name, ".")
    IN IF 0 < i /\ i < Len(name) - 1 THEN SubSeq(name, 1, i) ELSE name

(***************************************************************************)
(* fnmatch (the shell-glob matcher filters.py and core.py import)          *)
(***************************************************************************)

\* For a pattern that starts with "[": the index of the "]" that closes the
\* class, or 0 when the class is not closed (the "[" is then a literal).
ClassEnd(pat) ==
    LET n == Len(pat)
        j1 == IF 2 <= n /\ Ch(pat, 2) = "!" THEN 3 ELSE 2
        j2 == IF j1 <= n /\ Ch(pat, j1) = "]" THEN j1 + 1 ELSE j1
        closing == {k \in j2..n : Ch(pat, k) = "]"}
    IN IF closing = {} THEN 0
       ELSE CHOOSE k \in closing : \A m \in closing : k <= m

\* Whether c is in the class body: single characters and lo-hi ranges,
\* read left to right; a range with lo > hi holds nothing.
RECURSIVE InClassBody(_, _)
InClassBody(c, body) ==
    IF Len(body) = 0 THEN FALSE
    ELSE IF Len(body) >= 3 /\ Ch(body, 2) = "-"
         THEN \/ (Ord(Ch(body, 1)) <= Ord(c) /\ Ord(c) <= Ord(Ch(body, 3)))
              \/ InClassBody(c, SubSeq(body, 4, Len(body)))
         ELSE \/ c = Ch(body, 1)
              \/ InClassBody(c, SubSeq(body, 2, Len(body)))

\* [stuff] and [!stuff]
InClass(c, stuff) ==
    IF Len(stuff) > 0 /\ Ch(stuff, 1) = "!"
    THEN ~InClassBody(c, SubSeq(stuff, 2, Len(stuff)))
    ELSE InClassBody(c, stuff)

\* fnmatch.fnmatch(name, pat) on POSIX (normcase changes nothing): the whole
\* name must match; "*" is any run of characters, "?" any one character
RECURSIVE fnmatch(_, _)
fnmatch(name, pat) ==
    IF Len(pat) = 0 THEN Len(name) = 0
    ELSE
      LET c == Ch(pat, 1)
          rest == SubSeq(pat, 2, Len(pat))
          tail == SubSeq(name, 2, Len(name))
      IN IF c = "*"
         THEN \E k \in 0..Len(name) : fnmatch(SubSeq(name, k + 1, Len(name)), rest)
         ELSE IF c = "?"
         THEN Len(name) > 0 /\ fnmatch(tail, rest)
         ELSE IF c = "[" /\ ClassEnd(pat) > 0
         THEN /\ Len(name) > 0
              /\ InClass(Ch(name, 1), SubSeq(pat, 2, ClassEnd(pat) - 1))
              /\ fnmatch(tail, SubSeq(pat, ClassEnd(pat) + 1, Len(pat)))
         ELSE Len(name) > 0 /\ Ch(name, 1) = c /\ fnmatch(tail, rest)

(***************************************************************************)
(* Exclusion rules (types.py, filters.py)                                  *)
(***************************************************************************)

\* A rule of an exclusion list: a string, or one of the lambdas of
\* DEFAULT_EXCLUSIONS (x.endswith(arg), x.startswith(arg), arg in x.lower()).
Lit(s) == [kind |-> "str", s |-> s, fn |-> "", arg |-> ""]
Lambda(fn, arg) == [kind |-> "callable", s |-> "", fn |-> fn, arg |-> arg]

\* callable(_exclude)
callable(rule) == rule.kind = "callable"

\* _exclude(x) for a callable rule
Call(rule, x) ==
    IF rule.fn = "endswith" THEN endswith(x, rule.arg)
    ELSE IF rule.fn = "startswith" THEN startswith(x, rule.arg)
    ELSE contains(casefold(x), rule.arg)

\* types._is_glob: any(c in path for c in "*?![]")
_is_glob(path) ==
    \E i \in 1..Len(path) : Ch(path, i) \in {"*", "?", "!", "[", "]"}

\* filters.is_glob
is_glob(path) == _is_glob(path)

\* types._is_extension with a condition a slip could drop
_is_extension_always_false(name) == FALSE

\* types._is_extension: name.startswith(".") and os.path.sep not in name
_is_extension(name) == startswith(name, ".") /\ ~HasChar(name, "/")

\* filters.is_extension
is_extension(name) == _is_extension(name)

\* One pass of the loop of is_excluded: whether rule _exclude excludes.
RuleExcludes(path, name, stem, entry_is_glob, _exclude) ==
    LET excluded_is_glob ==
            entry_is_glob \/ (~callable(_exclude) /\ is_glob(_exclude.s))
    IN IF callable(_exclude)
       THEN Call(_exclude, name) \/ Call(_exclude, stem) \/ Call(_exclude, path)
       ELSE IF excluded_is_glob
       THEN \/ fnmatch(name, _exclude.s)
            \/ fnmatch(path, _exclude.s)
            \/ fnmatch(stem, _exclude.s)
       ELSE IF \/ name = _exclude.s
               \/ path = _exclude.s
               \/ stem = _exclude.s
               \/ (is_extension(_exclude.s) /\ endswith(name, _exclude.s))
       THEN TRUE
       ELSE LET _exclude_glob ==
                    IF is_extension(_exclude.s)
                    THEN "*" \o _exclude.s
                    ELSE "*" \o _exclude.s \o "*"
            IN \/ fnmatch(name, _exclude_glob)
               \/ fnmatch(path, _exclude_glob)
               \/ fnmatch(stem, _exclude_glob)

\* filters.is_excluded(entry, exclude=...), entry a path string
is_excluded(entry, exclude) ==
    LET path == PurePosixPath(entry)
        name == PathName(path)
        stem == PathStem(path)
        entry_is_glob == is_glob(entry)
    IN \E i \in 1..Len(exclude) :
          RuleExcludes(path, name, stem, entry_is_glob, exclude[i])

(***************************************************************************)
(* Extension filter (core.py, defaults.py, filters.py)                     *)
(***************************************************************************)

\* defaults.EXTENSIONLESS_SENTINEL: core.py imports it, the defaults.py at
\* hand does not define it; it is the pattern that stands for "no extension"
EXTENSIONLESS_SENTINEL == "<extensionless>"

\* nothing is removed
removeprefix_nothing(s, p) == s

\* str.removeprefix
removeprefix(s, p) == IF startswith(s, p) THEN SubSeq(s, Len(p) + 1, Len(s)) ELSE s

\* DepthFirstPrinter._extension_match
_extension_match(filename, extensions) ==
    IF Len(extensions) = 0 THEN TRUE
    ELSE \E i \in 1..Len(extensions) :
           LET pattern == extensions[i]
           IN IF is_glob(pattern)
              THEN fnmatch(filename, pattern)
              ELSE IF pattern = EXTENSIONLESS_SENTINEL
              THEN ~HasChar(filename, ".")
              ELSE endswith(filename, "." \o removeprefix(pattern, "."))

(***************************************************************************)
(* Emptiness classifier (core.py)                                          *)
(*                                                                         *)
(* A text is what ast.parse makes of it: blank (text.strip() is empty), a  *)
(* SyntaxError, or the list of the module's top-level statements.  A       *)
(* statement has its ast class, an Assign its targets, an Expr its value.  *)
(***************************************************************************)

Stmt(type, targets, value) == [type |-> type, targets |-> targets, value |-> value]
Name(id) == [type |-> "Name", id |-> id]
Attribute(id) == [type |-> "Attribute", id |-> id]
NoValue == [type |-> "", of |-> ""]
Constant(of) == [type |-> "Constant", of |-> of]
CallExpr == [type |-> "Call", of |-> ""]

Text(blank, parses, body) == [blank |-> blank, parses |-> parses, body |-> body]

\* the for loop of is_text_semantically_empty over the statements from the
\* i-th on: TRUE when it runs to its end, FALSE when it returns False
RECURSIVE EmptyLoop(_, _)
EmptyLoop(body, i) ==
    IF i > Len(body) THEN TRUE
    ELSE
      LET node == body[i]
      IN IF node.type \in {"Import", "ImportFrom"}
         THEN EmptyLoop(body, i + 1)
         ELSE IF node.type = "Assign"
         THEN LET targets == node.targets
              IN IF /\ Len(targets) = 1
                    /\ targets[1].type = "Name"
                    /\ targets[1].id = "__all__"
                 THEN EmptyLoop(body, i + 1)
                 \* no else: the if statement ends and the loop goes on
                 ELSE EmptyLoop(body, i + 1)
         ELSE IF /\ node.type = "Expr"
                 /\ node.value.type = "Constant"
                 /\ node.value.of = "str"
         THEN EmptyLoop(body, i + 1)
         ELSE FALSE

\* core.is_text_semantically_empty
is_text_semantically_empty(text) ==
    IF text.blank THEN TRUE
    ELSE IF ~text.parses THEN FALSE
    ELSE EmptyLoop(text.body, 1)

\* A blob: its bytes as far as the code looks at them, and the text they
\* decode to.
Blob(empty, nul, utf8, text) == [empty |-> empty, nul |-> nul, utf8 |-> utf8, text |-> text]

\* core._is_text_bytes
_is_text_bytes(blob) ==
    IF blob.empty THEN TRUE
    ELSE IF blob.nul THEN FALSE
    ELSE blob.utf8

\* core._decode_text: utf-8, else latin-1; either way the blob's text
_decode_text(blob) == blob.text

\* core.is_blob_semantically_empty
is_blob_semantically_empty(blob) ==
    IF ~_is_text_bytes(blob) THEN FALSE
    ELSE is_text_semantically_empty(_decode_text(blob))

(***************************************************************************)
(* FileBudget (core.py)                                                    *)
(***************************************************************************)

\* Python's None and an optional value: <<>> and <<v>>
None == <<>>
Some(v) == <<v>>

\* a FileBudget that counts from zero too
FileBudget_counting_zero(max_files) ==
    [_remaining |-> IF max_files # None /\ max_files[1] >= 0 THEN max_files ELSE None]

\* FileBudget.__init__
FileBudget(max_files) ==
    [_remaining |-> IF max_files # None /\ max_files[1] > 0 THEN max_files ELSE None]

\* a budget that never reads as spent
spent_never(b) == FALSE

\* FileBudget.spent
spent(b) == b._remaining = Some(0)

\* FileBudget.available
available(b) == b._remaining = None \/ b._remaining[1] > 0

\* FileBudget.consume that forgets to count
consume_nothing(b) == b

\* FileBudget.consume
consume(b) ==
    IF b._remaining = None THEN b
    ELSE IF b._remaining[1] > 0 THEN [_remaining |-> Some(b._remaining[1] - 1)]
    ELSE b

(***************************************************************************)
(* The tree the adapters serve                                             *)
(*                                                                         *)
(* One tree, seen by the filesystem adapter under the working directory    *)
(* Cwd and by the GitHub adapter as the repository o/r.  A node has its    *)
(* path below the tree's root, its kind, and (a file) its bytes.           *)
(***************************************************************************)

\* print('a'): a call
CodeText == Text(FALSE, TRUE, <<Stmt("Expr", <<>>, CallExpr)>>)
\* import os, then a docstring
ImportsText == Text(FALSE, TRUE,
                    <<Stmt("Import", <<>>, NoValue), Stmt("Expr", <<>>, Constant("str"))>>)
\* prose: not Python
ProseText == Text(FALSE, FALSE, <<>>)

CodeBlob == Blob(FALSE, FALSE, TRUE, CodeText)
ImportsBlob == Blob(FALSE, FALSE, TRUE, ImportsText)
ProseBlob == Blob(FALSE, FALSE, TRUE, ProseText)
BinaryBlob == Blob(FALSE, TRUE, FALSE, ProseText)
EmptyBlob == Blob(TRUE, FALSE, TRUE, Text(TRUE, TRUE, <<>>))

Node(rel, kind, blob) == [rel |-> rel, kind |-> kind, blob |-> blob]

Tree ==
    { Node("doc", "dir", EmptyBlob),
      Node("doc/r.md", "file", ProseBlob),
      Node("doc/sub", "dir", EmptyBlob),
      Node("doc/sub/z.md", "file", ProseBlob),
      Node("Src", "dir", EmptyBlob),
      Node("Src/m.py", "file", CodeBlob),
      Node("build", "dir", EmptyBlob),
      Node("build/x.o", "file", BinaryBlob),
      Node("a.py", "file", CodeBlob),
      Node("A.py", "file", CodeBlob),
      Node("e.py", "file", ImportsBlob),
      Node("LICENSE", "file", ProseBlob),
      Node("ln.py", "symlink", CodeBlob) }

\* the node at a path below the root ("" is the root itself)
IsNode(rel) == \E n \in Tree : n.rel = rel
NodeAt(rel) == CHOOSE n \in Tree : n.rel = rel
KindAt(rel) == IF rel = "" THEN "dir" ELSE IF IsNode(rel) THEN NodeAt(rel).kind ELSE "missing"

\* the directory a path lies in
DirName(rel) ==
    LET ps == Split(rel) IN Join(SubSeq(ps, 1, Len(ps) - 1))

ChildrenOf(rel) == {n \in Tree : DirName(n.rel) = rel}

\* A set of nodes as a sequence in ascending order of path, and that
\* sequence reversed: the two orders a listing is taken to come in.
RECURSIVE AscendingSeq(_)
AscendingSeq(nodes) ==
    IF nodes = {} THEN <<>>
    ELSE LET n == CHOOSE x \in nodes : \A y \in nodes : x = y \/ StrLess(x.rel, y.rel)
         IN <<n>> \o AscendingSeq(nodes \ {n})

Reversed(seq) == [i \in 1..Len(seq) |-> seq[Len(seq) + 1 - i]]

ListingOrders(nodes) == {AscendingSeq(nodes), Reversed(AscendingSeq(nodes))}

(***************************************************************************)
(* Source adapters (adapters/filesystem.py, adapters/github.py)            *)
(***************************************************************************)

\* core.Entry
Entry(path, name, kind) == [path |-> path, name |-> name, kind |-> kind]

\* what a list_dir call comes to: the exception it raises ("" for none) and
\* the entries it returns
Listing(exc, entries) == [exc |-> exc, entries |-> entries]

\* FileSystemSource._cwd
Cwd == "/w"

\* FileSystemSource.resolve_root: (cwd / root_spec).resolve()
fs_resolve_root(root_spec) ==
    IF startswith(root_spec, "/") THEN PurePosixPath(root_spec)
    ELSE PurePosixPath(Cwd \o "/" \o root_spec)

\* a second place of the filesystem that holds the same tree
Moved == "/build"

\* the tree path of an absolute path under Cwd, or under Moved
FsRel(path) ==
    IF path = Cwd \/ path = Moved THEN ""
    ELSE IF startswith(path, Moved \o "/") THEN removeprefix(path, Moved \o "/")
    ELSE removeprefix(path, Cwd \o "/")

\* FileSystemSource.list_dir: os.scandir raises for a file and for a missing
\* path; the kind of an entry is taken without following symlinks
fs_list_dir(dir_path, nodes) ==
    LET kind == KindAt(FsRel(dir_path))
    IN IF kind = "missing" THEN Listing("FileNotFoundError", <<>>)
       ELSE IF kind # "dir" THEN Listing("NotADirectoryError", <<>>)
       ELSE Listing("",
              [i \in 1..Len(nodes) |->
                 Entry(PurePosixPath(dir_path \o "/" \o PathName(nodes[i].rel)),
                       PathName(nodes[i].rel),
                       IF nodes[i].kind = "dir" THEN "DIRECTORY"
                       ELSE IF nodes[i].kind = "file" THEN "FILE"
                       ELSE "OTHER")])

\* FileSystemSource.read_file_bytes
fs_read_file_bytes(file_path) ==
    IF KindAt(FsRel(file_path)) = "file" THEN NodeAt(FsRel(file_path)).blob ELSE EmptyBlob

\* FileSystemSource.is_empty
fs_is_empty(file_path) ==
    IF KindAt(FsRel(file_path)) # "file" THEN FALSE
    ELSE is_blob_semantically_empty(NodeAt(FsRel(file_path)).blob)

\* GitHubRepoSource.resolve_root: PurePosixPath(root_spec or "")
gh_resolve_root(root_spec) == PurePosixPath(root_spec)

\* the tree path of a path inside the repository
GhRel(path) == IF path = "." THEN "" ELSE path

\* the status the contents endpoint answers with, rate limits aside
ContentsStatus(path) == IF KindAt(GhRel(path)) = "missing" THEN 404 ELSE 200

\* Response.raise_for_status() as _get, list_dir and read_file_bytes meet it:
\* HTTPError for a 4xx or 5xx status, nothing otherwise
raise_for_status(status) ==
    IF 400 <= status /\ status < 600 THEN "HTTPError" ELSE ""

\* GitHubRepoSource.list_dir
gh_list_dir(dir_path, nodes) ==
    LET exc == raise_for_status(ContentsStatus(dir_path))
        kind == KindAt(GhRel(dir_path))
    IN IF exc # "" THEN Listing(exc, <<>>)
       ELSE IF kind = "file" THEN Listing("NotADirectoryError", <<>>)
       ELSE IF kind # "dir" THEN Listing("AssertionError", <<>>)
       ELSE Listing("",
              [i \in 1..Len(nodes) |->
                 Entry(PurePosixPath(nodes[i].rel),
                       PathName(nodes[i].rel),
                       IF nodes[i].kind = "dir" THEN "DIRECTORY"
                       ELSE IF nodes[i].kind = "file" THEN "FILE"
                       ELSE "OTHER")])

\* GitHubRepoSource.read_file_bytes, every request answered 200 with the
\* inline payload
gh_read_file_bytes(file_path) ==
    IF KindAt(GhRel(file_path)) = "file" THEN NodeAt(GhRel(file_path)).blob ELSE EmptyBlob

\* GitHubRepoSource.is_empty
gh_is_empty(file_path) == is_blob_semantically_empty(gh_read_file_bytes(file_path))

(***************************************************************************)
(* Helpers of DepthFirstPrinter (core.py)                                  *)
(***************************************************************************)

\* the sort key without the casefold
SortKeyRaw(e) == e.name

\* the sort key of run(): e.name.casefold()
SortKey(e) == casefold(e.name)

\* list.sort(key=...): stable, ascending
RECURSIVE Insert(_, _)
Insert(sorted, e) ==
    IF Len(sorted) = 0 THEN <<e>>
    ELSE IF StrLess(SortKey(e), SortKey(sorted[1])) THEN <<e>> \o sorted
    ELSE <<sorted[1]>> \o Insert(Tail(sorted), e)

RECURSIVE Sorted(_)
Sorted(seq) ==
    IF Len(seq) = 0 THEN <<>>
    ELSE Insert(Sorted(SubSeq(seq, 1, Len(seq) - 1)), seq[Len(seq)])

\* [e for e in entries if e.kind is kind]
RECURSIVE OfKind(_, _)
OfKind(entries, kind) ==
    IF Len(entries) = 0 THEN <<>>
    ELSE IF entries[1].kind = kind THEN <<entries[1]>> \o OfKind(Tail(entries), kind)
    ELSE OfKind(Tail(entries), kind)

\* the length of the longest common prefix of two component lists
RECURSIVE CommonLen(_, _)
CommonLen(a, b) ==
    IF Len(a) = 0 \/ Len(b) = 0 \/ a[1] # b[1] THEN 0
    ELSE 1 + CommonLen(Tail(a), Tail(b))

\* os.path.relpath(path, start): both of one kind, absolute or relative
relpath(path, start) ==
    LET start_list == Parts(Split(start))
        path_list == Parts(Split(path))
        i == CommonLen(start_list, path_list)
        rel_list == [k \in 1..(Len(start_list) - i) |-> ".."]
                      \o SubSeq(path_list, i + 1, Len(path_list))
    IN IF Len(rel_list) = 0 THEN "." ELSE Join(rel_list)

\* the path relative to the working directory, not to base
_display_path_from_cwd(path, base) ==
    IF startswith(path, "/") THEN relpath(path, Cwd) ELSE relpath(path, ".")

\* DepthFirstPrinter._display_path
_display_path(path, base) ==
    LET rel == relpath(path, base)
    IN IF rel = "." \/ rel = "" THEN PathName(path) ELSE rel

(***************************************************************************)
(* Defaults and filter resolution (defaults.py, filters.py)                *)
(***************************************************************************)

DEFAULT_EXCLUSIONS ==
    << Lambda("endswith", "egg-info"), Lit("build"), Lit("bin"), Lit("dist"),
       Lit("node_modules"), Lambda("startswith", "."), Lambda("contains", "cache"),
       Lit("target"), Lit("vendor"), Lit("out"), Lit("coverage"),
       Lit("*.swp"), Lit("*.swo"),
       Lit("*.class"), Lit("*.o"), Lit("*.so"), Lit("*.dylib"),
       Lit("logs"), Lit("*.log"), Lit("*.tmp"),
       Lit("secrets"), Lit("*.key"), Lit("*.pem") >>

DEFAULT_SUPPORTED_EXTENSIONS ==
    << ".py", ".ts", ".tsx", ".json", ".json*", ".html", ".ini", ".toml",
       ".yaml", ".yml", ".sh", ".zsh" >>

DEFAULT_DOC_EXTENSIONS == <<".md", ".rst", ".mdx">>

DEFAULT_TEST_EXCLUSIONS ==
    << Lit("tests"), Lit("test"), Lit("spec.ts"), Lit("spec.ts*"),
       Lit("test.ts"), Lit("test.ts*") >>

DEFAULT_LOCK_EXCLUSIONS ==
    << Lit("uv.lock"), Lit("poetry.lock"), Lit("Pipfile.lock"),
       Lit("package-lock.json"), Lit("yarn.lock"), Lit("pnpm-lock.yaml"),
       Lit("Gemfile.lock"), Lit("composer.lock"), Lit("Cargo.lock"),
       Lit("go.sum"), Lit("mix.lock") >>

DEFAULT_BINARY_EXCLUSIONS ==
    << Lit("*.pyc"), Lit("*.pyo"), Lit("*.pyd"), Lit("*.exe"), Lit("*.dll"),
       Lit("*.app"), Lit("*.deb"), Lit("*.rpm"),
       Lit("*.zip"), Lit("*.tar"), Lit("*.gz"), Lit("*.bz2"), Lit("*.xz"),
       Lit("*.7z"), Lit("*.rar"), Lit("*.jar"), Lit("*.war"), Lit("*.ear"),
       Lit("*.png"), Lit("*.jpg"), Lit("*.jpeg"), Lit("*.gif"), Lit("*.bmp"),
       Lit("*.ico"), Lit("*.svg"), Lit("*.mp3"), Lit("*.mp4"), Lit("*.avi"),
       Lit("*.mov"), Lit("*.wav"), Lit("*.pdf"),
       Lit("*.db"), Lit("*.sqlite"), Lit("*.sqlite3"), Lit("*.dat"), Lit("*.bin") >>

\* filters.get_gitignore_exclusions where no ignore file is found: neither
\* ~/.config/git/ignore nor a .gitignore or .git/info/exclude under a path
get_gitignore_exclusions(paths) == <<>>

\* filters.resolve_exclusions
resolve_exclusions(no_exclude, custom_excludes, include_tests, include_lock, include_binary, no_ignore, paths) ==
    IF no_exclude THEN <<>>
    ELSE DEFAULT_EXCLUSIONS
           \o custom_excludes
           \o (IF ~include_tests THEN DEFAULT_TEST_EXCLUSIONS ELSE <<>>)
           \o (IF ~include_lock THEN DEFAULT_LOCK_EXCLUSIONS ELSE <<>>)
           \o (IF ~include_binary THEN DEFAULT_BINARY_EXCLUSIONS ELSE <<>>)
           \o (IF ~no_ignore THEN get_gitignore_exclusions(paths) ELSE <<>>)

\* the default list with the extensionless sentinel in it
resolve_extensions_with_extensionless(custom_extensions, no_docs) ==
    IF Len(custom_extensions) > 0 THEN custom_extensions
    ELSE DEFAULT_SUPPORTED_EXTENSIONS \o <<EXTENSIONLESS_SENTINEL>>

\* filters.resolve_extensions
resolve_extensions(custom_extensions, no_docs) ==
    IF Len(custom_extensions) > 0 THEN custom_extensions
    ELSE DEFAULT_SUPPORTED_EXTENSIONS
           \o (IF ~no_docs THEN DEFAULT_DOC_EXTENSIONS ELSE <<>>)

(***************************************************************************)
(* URLs (util.py, adapters/github.py)                                      *)
(***************************************************************************)

GITHUB_URL_PATTERNS ==
    <<"https://github.com/", "http://github.com/", "git+https://github.com/">>

\* util.is_github_url (the tokens of the model carry no outer whitespace)
is_github_url(token) ==
    LET tok == casefold(token)
    IN IF startswith(tok, "-") THEN FALSE
       ELSE IF \E i \in 1..Len(GITHUB_URL_PATTERNS) : startswith(tok, GITHUB_URL_PATTERNS[i])
       THEN TRUE
       ELSE startswith(tok, "github.com/") \/ startswith(tok, "www.github.com/")

\* urlparse(url).path: what follows the scheme and the host, or the whole
\* token when it names no scheme
UrlPath(url) ==
    LET marks == {i \in 1..(Len(url) - 2) : SubSeq(url, i, i + 2) = "://"}
    IN IF marks = {} THEN url
       ELSE LET m == CHOOSE i \in marks : \A j \in marks : i <= j
                after == SubSeq(url, m + 3, Len(url))
                segs == Split(after)
            IN IF Len(segs) = 1 THEN "" ELSE "/" \o Join(Tail(segs))

\* s.strip("/")
RECURSIVE StripSlashes(_)
StripSlashes(s) ==
    IF startswith(s, "/") THEN StripSlashes(SubSeq(s, 2, Len(s)))
    ELSE IF endswith(s, "/") /\ Len(s) > 0 THEN StripSlashes(SubSeq(s, 1, Len(s) - 1))
    ELSE s

\* util.extract_in_repo_subpath
extract_in_repo_subpath(url) ==
    LET raw_path == StripSlashes(UrlPath(url))
        segments == Split(raw_path)
        rest == SubSeq(segments, 3, Len(segments))
        rest1 == IF Len(rest) > 0 /\ rest[1] = "blob" THEN Tail(rest) ELSE rest
        rest2 == IF Len(rest1) > 0 /\ rest1[1] \in {"main", "master"} THEN Tail(rest1) ELSE rest1
    IN IF raw_path = "" THEN ""
       ELSE IF Len(segments) < 2 THEN ""
       ELSE IF Len(rest) = 0 THEN ""
       ELSE Join(rest2)

\* github._parse_owner_repo: whether the pattern
\* https?://github\.com/([^/]+)/([^/]+?)(?:\.git)?(?:/|$) matches at the start
_parse_owner_repo_matches(url) ==
    LET prefix == IF startswith(url, "https://github.com/") THEN "https://github.com/"
                  ELSE IF startswith(url, "http://github.com/") THEN "http://github.com/"
                  ELSE ""
        segs == Split(removeprefix(url, prefix))
    IN prefix # "" /\ Len(segs) >= 2 /\ segs[1] # "" /\ segs[2] # ""

(***************************************************************************)
(* State                                                                   *)
(***************************************************************************)

VARIABLES
    api,             \* "run": DepthFirstPrinter.run is called as the tests call
                     \* it; "main": prin.main is called with an argv
    max_files,       \* the max_files given to FileBudget / to --max-files
    include_empty,   \* DepthFirstPrinter.include_empty
    only_headers,    \* DepthFirstPrinter.only_headers
    jobs,            \* main: the printers to run, in order: adapter, URL, roots;
                     \* a caller of run(): its calls of run() on the one printer
    ji,              \* the printer, or the call of run(), at work
    pc,              \* where the control is
    ri,              \* run(): index of root_spec in roots
    root,            \* run(): root
    stack,           \* run(): stack
    files,           \* run(): the files of the current directory still to handle
    _printed_paths,  \* DepthFirstPrinter._printed_paths
    budget,          \* run(): budget, None or a FileBudget
    out,             \* the writer's parts, one per write
    ops,             \* the adapter operations made so far, in order
    f_entry,         \* is_excluded: entry
    f_exclude,       \* is_excluded: exclude
    f_result,        \* is_excluded: None, or the value returned
    e_text,          \* is_text_semantically_empty: text
    e_result,        \* is_text_semantically_empty: None, or the value returned
    h_req,           \* the request code at work: "_get", or "download_url" for
                     \* the download of read_file_bytes
    h_pc,            \* where that code is: "get", "retry", "done"
    h_attempt,       \* _get: attempt
    h_log,           \* the session.get calls and the sleeps made, in order
    h_resps,         \* the responses received, in order
    h_result,        \* None, or how the request code ended
    x_filename,      \* _extension_match: filename
    x_extensions,    \* _extension_match: self.extensions
    x_result,        \* _extension_match: None, or the value returned
    g_pc,            \* GitHubRepoSource.read_file_bytes: where the control is
    g_log,           \* read_file_bytes: the requests made and what each got
    g_result,        \* read_file_bytes: None, or how the call ended
    b_max_files,     \* FileBudget on its own: the max_files it was built with
    b_budget,        \* the FileBudget
    b_log            \* the calls made on it, each with what it returned and
                     \* the count left after it

engine_vars == <<api, max_files, include_empty, only_headers, jobs, ji, pc, ri, root,
                 stack, files, _printed_paths, budget, out, ops>>
filter_vars == <<f_entry, f_exclude, f_result>>
empty_vars == <<e_text, e_result>>
http_vars == <<h_req, h_pc, h_attempt, h_log, h_resps, h_result>>
ext_vars == <<x_filename, x_extensions, x_result>>
read_vars == <<g_pc, g_log, g_result>>
count_vars == <<b_max_files, b_budget, b_log>>
vars == <<engine_vars, filter_vars, empty_vars, http_vars, ext_vars, read_vars, count_vars>>

(***************************************************************************)
(* Bounds and inputs                                                       *)
(***************************************************************************)

MaxRoots == 2
MaxBudget == 3
MaxTokens == 2

\* the root specifiers a caller of run() passes
FsRootSpecs == {".", "doc", "a.py", "build/x.o", "e.py", "gone"}
GhRootSpecs == {"", "doc", "a.py", "build/x.o", "e.py", "gone"}

\* the positionals of an argv
MainTokens ==
    {".", "a.py", "https://github.com/o/r", "https://github.com/o/r/doc", "github.com/o/r"}

SeqsUpTo(S, n) == UNION {[1..k -> S] : k \in 1..n}

\* the printer of tests/test_cli_engine_positional.py
TestExtensions == <<".py", ".md", ".json">>
TestExclude ==
    <<Lit("__pycache__"), Lit("*.pyc"), Lit("build"), Lit("dist"), Lit("*.o"), Lit("*.so")>>

(***************************************************************************)
(* prin.main: the printers it builds                                       *)
(***************************************************************************)

Job(adapter, url, roots) == [adapter |-> adapter, url |-> url, roots |-> roots]

\* the roots main gives the printer of a URL
UrlRoots(url) ==
    LET derived == StripSlashes(extract_in_repo_subpath(url))
    IN IF derived # "" THEN <<derived>> ELSE <<"">>

\* one printer per token, in the order of the command line
MainJobsAsGiven(paths) ==
    [i \in 1..Len(paths) |->
       IF is_github_url(paths[i]) THEN Job("gh", paths[i], UrlRoots(paths[i]))
       ELSE Job("fs", "", <<paths[i]>>)]

\* main: the split of ctx.paths into local_paths and repo_urls, and the
\* printers run for them: one for the local paths if any, then one per URL
MainJobs(paths) ==
    LET local_paths == SelectSeq(paths, LAMBDA tok : ~is_github_url(tok))
        repo_urls == SelectSeq(paths, LAMBDA tok : is_github_url(tok))
    IN (IF Len(local_paths) > 0 THEN <<Job("fs", "", local_paths)>> ELSE <<>>)
         \o [i \in 1..Len(repo_urls) |-> Job("gh", repo_urls[i], UrlRoots(repo_urls[i]))]

\* the extensions main derives (no -e, no --no-docs), and those of the tests
extensions ==
    IF api = "main" THEN resolve_extensions(<<>>, FALSE) ELSE TestExtensions

\* the exclusions main derives for an adapter (no flag given; paths is read
\* for the ignore files only), and those of the tests
ExcludeOf(api_, adapter_) ==
    IF api_ = "main"
    THEN resolve_exclusions(FALSE, <<>>, FALSE, FALSE, FALSE, adapter_ = "gh", <<>>)
    ELSE TestExclude

\* the exclusions of the printer at work
exclude == ExcludeOf(api, jobs[ji].adapter)

\* the paths list_dir can give an entry, per adapter
EntryPaths(adapter_) ==
    {IF adapter_ = "fs" THEN Cwd \o "/" \o n.rel ELSE n.rel : n \in Tree}
    \cup {Moved \o "/" \o n.rel : n \in {m \in Tree : adapter_ = "fs"}}

\* is_excluded(path, exclude=...) for every printer and entry path, worked
\* out once
ExcludedTable ==
    UNION {UNION {{<<a, b, p>> :
                     p \in {q \in EntryPaths(b) : is_excluded(q, ExcludeOf(a, b))}} :
                  b \in {"fs", "gh"}} :
           a \in {"run", "main"}}

(***************************************************************************)
(* DepthFirstPrinter over the adapter of the printer at work               *)
(***************************************************************************)

adapter == jobs[ji].adapter

resolve_root(root_spec) ==
    IF adapter = "fs" THEN fs_resolve_root(root_spec) ELSE gh_resolve_root(root_spec)

TreeRel(path) == IF adapter = "fs" THEN FsRel(path) ELSE GhRel(path)

list_dir(dir_path, nodes) ==
    IF adapter = "fs" THEN fs_list_dir(dir_path, nodes) ELSE gh_list_dir(dir_path, nodes)

read_file_bytes(file_path) ==
    IF adapter = "fs" THEN fs_read_file_bytes(file_path) ELSE gh_read_file_bytes(file_path)

is_empty(file_path) ==
    IF adapter = "fs" THEN fs_is_empty(file_path) ELSE gh_is_empty(file_path)

\* roots or ["."]
Roots == IF Len(jobs[ji].roots) = 0 THEN <<".">> ELSE jobs[ji].roots

\* budget is not None and budget.spent()
BudgetSpent == budget # None /\ spent(budget[1])

\* DepthFirstPrinter._excluded
_excluded(entry) == <<api, jobs[ji].adapter, entry.path>> \in ExcludedTable

\* the duplicate check left out
AlreadyPrintedNever(key) == FALSE

\* _handle_file: key in self._printed_paths
AlreadyPrinted(key) == key \in _printed_paths

\* an adapter operation as ops records it
Op(op, arg, exc) == [op |-> op, arg |-> arg, exc |-> exc, job |-> ji, root |-> ri]

\* what the filters of _handle_file come to: whether the file is skipped,
\* and whether is_empty was called
Filtered(skip, asked) == [skip |-> skip, asked |-> asked]

\* the filters applied to forced entries too
FiltersIgnoringForce(entry, force) ==
    IF _excluded(entry) THEN Filtered(TRUE, FALSE)
    ELSE IF ~_extension_match(entry.name, extensions) THEN Filtered(TRUE, FALSE)
    ELSE IF ~include_empty THEN Filtered(is_empty(entry.path), TRUE)
    ELSE Filtered(FALSE, FALSE)

\* the filters without the emptiness check
FiltersWithoutEmptiness(entry, force) ==
    IF ~force
    THEN IF _excluded(entry) THEN Filtered(TRUE, FALSE)
         ELSE IF ~_extension_match(entry.name, extensions) THEN Filtered(TRUE, FALSE)
         ELSE Filtered(FALSE, FALSE)
    ELSE Filtered(FALSE, FALSE)

\* every entry is let through as a forced one is
FiltersForcingAll(entry, force) == Filtered(FALSE, FALSE)

\* _handle_file: the "if not force" block
Filters(entry, force) ==
    IF ~force
    THEN IF _excluded(entry) THEN Filtered(TRUE, FALSE)
         ELSE IF ~_extension_match(entry.name, extensions) THEN Filtered(TRUE, FALSE)
         ELSE IF ~include_empty THEN Filtered(is_empty(entry.path), TRUE)
         ELSE Filtered(FALSE, FALSE)
    ELSE Filtered(FALSE, FALSE)

\* one write of the writer: the formatter's record (header, body or binary)
\* for a display path, with the key, the printer and the root it was
\* written for
Record(kind, path_str, key) ==
    [kind |-> kind, path |-> path_str, key |-> key, job |-> ji, root |-> ri]

\* DepthFirstPrinter._handle_file, after the operations in ops_in
_handle_file(entry, base, force, ops_in) ==
    LET key == entry.path
        path_str == _display_path(entry.path, base)
        blob == read_file_bytes(entry.path)
        filters == Filters(entry, force)
        ops_filters == IF filters.asked
                       THEN Append(ops_in, Op("is_empty", entry.path, ""))
                       ELSE ops_in
    IN IF AlreadyPrinted(key)
       THEN /\ ops' = ops_in
            /\ UNCHANGED <<out, budget, _printed_paths>>
       ELSE IF BudgetSpent
       THEN /\ ops' = ops_in
            /\ UNCHANGED <<out, budget, _printed_paths>>
       ELSE IF filters.skip
       THEN /\ ops' = ops_filters
            /\ UNCHANGED <<out, budget, _printed_paths>>
       ELSE /\ IF only_headers
               THEN /\ out' = Append(out, Record("header", path_str, key))
                    /\ ops' = ops_filters
               ELSE /\ out' = Append(out,
                                Record(IF _is_text_bytes(blob) THEN "body" ELSE "binary",
                                       path_str, key))
                    /\ ops' = Append(ops_filters, Op("read_file_bytes", entry.path, ""))
            /\ budget' = IF budget # None THEN Some(consume(budget[1])) ELSE budget
            /\ _printed_paths' = _printed_paths \cup {key}

\* run() returns: main goes on to its next printer, a caller of run() to
\* its next call if it has one, and is done otherwise
RunReturns ==
    /\ IF api = "main" \/ ji < Len(jobs)
       THEN /\ pc' = "start"
            /\ ji' = ji + 1
       ELSE /\ pc' = "done"
            /\ ji' = ji
    /\ UNCHANGED <<api, max_files, include_empty, only_headers, jobs, ri, root, stack,
                   files, _printed_paths, budget, out, ops>>

UNCHANGED_others ==
    UNCHANGED <<filter_vars, empty_vars, http_vars, ext_vars, read_vars, count_vars>>
UNCHANGED_config == UNCHANGED <<api, max_files, include_empty, only_headers, jobs>>

\* main: the next printer is built (for a URL: GitHubRepoSource(url), which
\* parses owner and repo and fetches the default branch) and its run() begins
NewPrinter ==
    /\ api = "main"
    /\ pc = "start"
    /\ ji <= Len(jobs)
    /\ jobs[ji].adapter = "gh" => _parse_owner_repo_matches(jobs[ji].url)
    /\ pc' = "for"
    /\ ri' = 1
    /\ _printed_paths' = {}
    /\ ops' = IF jobs[ji].adapter = "gh"
              THEN Append(ops, [Op("default_branch", jobs[ji].url, "") EXCEPT !.root = 0])
              ELSE ops
    /\ UNCHANGED <<ji, root, stack, files, budget, out>>
    /\ UNCHANGED_config /\ UNCHANGED_others

\* main: GitHubRepoSource(url) raises ValueError("Unrecognized GitHub URL")
NewPrinterRaises ==
    /\ api = "main"
    /\ pc = "start"
    /\ ji <= Len(jobs)
    /\ jobs[ji].adapter = "gh" /\ ~_parse_owner_repo_matches(jobs[ji].url)
    /\ pc' = "raised"
    /\ UNCHANGED <<ji, ri, root, stack, files, _printed_paths, budget, out, ops>>
    /\ UNCHANGED_config /\ UNCHANGED_others

\* main: no printer is left
MainReturns ==
    /\ api = "main"
    /\ pc = "start"
    /\ ji > Len(jobs)
    /\ pc' = "done"
    /\ UNCHANGED <<ji, ri, root, stack, files, _printed_paths, budget, out, ops>>
    /\ UNCHANGED_config /\ UNCHANGED_others

\* run(): the for loop finds the budget spent and returns
ForBudgetSpent ==
    /\ pc = "for"
    /\ ri <= Len(Roots)
    /\ BudgetSpent
    /\ RunReturns /\ UNCHANGED_others

\* run(): the for loop is over
ForExhausted ==
    /\ pc = "for"
    /\ ri > Len(Roots)
    /\ RunReturns /\ UNCHANGED_others

\* run(): the next root is resolved and the stack seeded with it
ForResolveRoot ==
    /\ pc = "for"
    /\ ri <= Len(Roots)
    /\ ~BudgetSpent
    /\ root' = resolve_root(Roots[ri])
    /\ stack' = <<resolve_root(Roots[ri])>>
    /\ ops' = Append(ops, Op("resolve_root", Roots[ri], ""))
    /\ pc' = "while"
    /\ UNCHANGED <<ji, ri, files, _printed_paths, budget, out>>
    /\ UNCHANGED_config /\ UNCHANGED_others

\* run(): the stack is empty, the while loop ends and the for loop goes on
WhileStackEmpty ==
    /\ pc = "while"
    /\ stack = <<>>
    /\ ri' = ri + 1
    /\ pc' = "for"
    /\ UNCHANGED <<ji, root, stack, files, _printed_paths, budget, out, ops>>
    /\ UNCHANGED_config /\ UNCHANGED_others

\* run(): the while loop finds the budget spent and returns
WhileBudgetSpent ==
    /\ pc = "while"
    /\ stack # <<>>
    /\ BudgetSpent
    /\ RunReturns /\ UNCHANGED_others

\* run(): current = stack.pop(), and what list_dir(current) comes to, for a
\* listing order of the adapter's choice
Popped(order) ==
    LET current == stack[Len(stack)] IN list_dir(current, order)

CanPop == pc = "while" /\ stack # <<>> /\ ~BudgetSpent

Current == stack[Len(stack)]

\* run(): list_dir raises NotADirectoryError, the path is handled as a file
\* with force=True
ListNotADirectory ==
    /\ CanPop
    /\ Popped(<<>>).exc = "NotADirectoryError"
    /\ stack' = SubSeq(stack, 1, Len(stack) - 1)
    /\ _handle_file(Entry(Current, PathName(Current), "FILE"), root, TRUE,
                    Append(ops, Op("list_dir", Current, "NotADirectoryError")))
    /\ UNCHANGED <<ji, pc, ri, root, files>>
    /\ UNCHANGED_config /\ UNCHANGED_others

\* run(): list_dir raises FileNotFoundError, the path is skipped
ListFileNotFound ==
    /\ CanPop
    /\ Popped(<<>>).exc = "FileNotFoundError"
    /\ stack' = SubSeq(stack, 1, Len(stack) - 1)
    /\ ops' = Append(ops, Op("list_dir", Current, "FileNotFoundError"))
    /\ UNCHANGED <<ji, pc, ri, root, files, _printed_paths, budget, out>>
    /\ UNCHANGED_config /\ UNCHANGED_others

\* run(): list_dir raises something run() does not catch
ListRaises ==
    /\ CanPop
    /\ Popped(<<>>).exc \notin {"", "NotADirectoryError", "FileNotFoundError"}
    /\ stack' = SubSeq(stack, 1, Len(stack) - 1)
    /\ ops' = Append(ops, Op("list_dir", Current, Popped(<<>>).exc))
    /\ pc' = "raised"
    /\ UNCHANGED <<ji, ri, root, files, _printed_paths, budget, out>>
    /\ UNCHANGED_config /\ UNCHANGED_others

\* no directory is pushed
PushNoDirs(stk, dirs) == stk

\* every directory is pushed, excluded or not
PushAllDirs(stk, dirs) == stk \o [i \in 1..Len(dirs) |-> dirs[Len(dirs) + 1 - i].path]

\* every directory is pushed, and pushed twice
PushDirsTwice(stk, dirs) == PushAllDirs(PushAllDirs(stk, dirs), dirs)

\* for entry in reversed(dirs): if not self._excluded(entry): stack.append
RECURSIVE PushDirs(_, _)
PushDirs(stk, dirs) ==
    IF Len(dirs) = 0 THEN stk
    ELSE LET entry == dirs[Len(dirs)]
             rest == SubSeq(dirs, 1, Len(dirs) - 1)
         IN IF ~_excluded(entry) THEN PushDirs(Append(stk, entry.path), rest)
            ELSE PushDirs(stk, rest)

\* run(): list_dir returns the entries; directories and files are sorted,
\* the directories pushed, and the file loop begins
ListEntries ==
    /\ CanPop
    /\ Popped(<<>>).exc = ""
    /\ \E order \in ListingOrders(ChildrenOf(TreeRel(Current))) :
          LET entries == Popped(order).entries
              dirs == Sorted(OfKind(entries, "DIRECTORY"))
              sorted_files == Sorted(OfKind(entries, "FILE"))
          IN /\ stack' = PushDirs(SubSeq(stack, 1, Len(stack) - 1), dirs)
             /\ files' = sorted_files
    /\ ops' = Append(ops, Op("list_dir", Current, ""))
    /\ pc' = "files"
    /\ UNCHANGED <<ji, ri, root, _printed_paths, budget, out>>
    /\ UNCHANGED_config /\ UNCHANGED_others

\* run(): the file loop handles its next entry
HandleNextFile ==
    /\ pc = "files"
    /\ files # <<>>
    /\ _handle_file(files[1], root, FALSE, ops)
    /\ files' = Tail(files)
    /\ UNCHANGED <<ji, pc, ri, root, stack>>
    /\ UNCHANGED_config /\ UNCHANGED_others

\* run(): the file loop is over, back to the while loop
FilesDone ==
    /\ pc = "files"
    /\ files = <<>>
    /\ pc' = "while"
    /\ UNCHANGED <<ji, ri, root, stack, files, _printed_paths, budget, out, ops>>
    /\ UNCHANGED_config /\ UNCHANGED_others

\* The values the variables of the other specifications rest at.
FilterIdle == f_entry = "" /\ f_exclude = <<>> /\ f_result = None
EmptyIdle == e_text = Text(TRUE, TRUE, <<>>) /\ e_result = None
HttpIdle ==
    /\ h_req = "" /\ h_pc = "done" /\ h_attempt = 0
    /\ h_log = <<>> /\ h_resps = <<>> /\ h_result = None
ExtIdle == x_filename = "" /\ x_extensions = <<>> /\ x_result = None
ReadIdle == g_pc = "done" /\ g_log = <<>> /\ g_result = None
CountIdle == b_max_files = None /\ b_budget = FileBudget(None) /\ b_log = <<>>
OthersIdle == ReadIdle /\ CountIdle

\* run() called on a printer built as the tests build it, with no budget or
\* a FileBudget(max_files)
InitRun ==
    /\ api = "run"
    /\ max_files \in {None} \cup {Some(n) : n \in 0..MaxBudget}
    /\ include_empty \in BOOLEAN
    /\ only_headers \in BOOLEAN
    /\ \E a \in {"fs", "gh"} :
         \E rs \in SeqsUpTo(IF a = "fs" THEN FsRootSpecs ELSE GhRootSpecs, MaxRoots) :
            jobs = <<Job(a, IF a = "gh" THEN "https://github.com/o/r" ELSE "", rs)>>
    /\ budget = IF max_files = None THEN None ELSE Some(FileBudget(max_files))
    /\ pc = "for"

\* main(argv=[... "--max-files", max_files, "-M"?, "-l"?, paths...]): it
\* calls run(roots, out_writer) and passes no budget
InitMain ==
    /\ api = "main"
    /\ max_files \in {None} \cup {Some(n) : n \in 1..MaxBudget}
    /\ include_empty \in BOOLEAN
    /\ only_headers \in BOOLEAN
    /\ \E paths \in SeqsUpTo(MainTokens, MaxTokens) : jobs = MainJobs(paths)
    /\ budget = None
    /\ pc = "start"

Init ==
    /\ InitRun \/ InitMain
    /\ ji = 1
    /\ ri = 1
    /\ root = ""
    /\ stack = <<>>
    /\ files = <<>>
    /\ _printed_paths = {}
    /\ out = <<>>
    /\ ops = <<>>
    /\ FilterIdle /\ EmptyIdle /\ HttpIdle /\ ExtIdle /\ OthersIdle

Next ==
    \/ NewPrinter
    \/ NewPrinterRaises
    \/ MainReturns
    \/ ForBudgetSpent
    \/ ForExhausted
    \/ ForResolveRoot
    \/ WhileStackEmpty
    \/ WhileBudgetSpent
    \/ ListNotADirectory
    \/ ListFileNotFound
    \/ ListRaises
    \/ ListEntries
    \/ HandleNextFile
    \/ FilesDone

Spec == Init /\ [][Next]_vars

\* run(), or main, has returned or raised
Terminated == pc \in {"done", "raised"}

\* The one thread of control takes its next step as long as it has one:
\* weak fairness of Next.  WF_vars(Next) is
\*     []<>~(ENABLED <<Next>>_vars) \/ []<><<Next>>_vars
\* and a step is enabled exactly while the control has not come to its end
\* (NotStuck below), so the enabledness is written as ~Terminated.
Fairness == []<>Terminated \/ []<><<Next>>_vars
FairSpec == Spec /\ Fairness

(***************************************************************************)
(* run() called twice on one DepthFirstPrinter                             *)
(***************************************************************************)

\* run(roots, writer, budget) is called on a printer built as the tests
\* build it, and is to be called again with the same roots
InitAgain ==
    /\ api = "run"
    /\ max_files \in {None} \cup {Some(n) : n \in 1..MaxBudget}
    /\ include_empty \in BOOLEAN
    /\ only_headers \in BOOLEAN
    /\ \E a \in {"fs", "gh"} :
         \E rs \in SeqsUpTo(IF a = "fs" THEN FsRootSpecs ELSE GhRootSpecs, MaxRoots) :
            LET call == Job(a, IF a = "gh" THEN "https://github.com/o/r" ELSE "", rs)
            IN jobs = <<call, call>>
    /\ budget = IF max_files = None THEN None ELSE Some(FileBudget(max_files))
    /\ pc = "for"
    /\ ji = 1
    /\ ri = 1
    /\ root = ""
    /\ stack = <<>>
    /\ files = <<>>
    /\ _printed_paths = {}
    /\ out = <<>>
    /\ ops = <<>>
    /\ FilterIdle /\ EmptyIdle /\ HttpIdle /\ ExtIdle /\ OthersIdle

\* the caller calls run() again on the same printer, with the same roots and
\* writer and a budget of its own: self._printed_paths is what __init__ and
\* the calls before made it
RunAgain ==
    /\ api = "run"
    /\ pc = "start"
    /\ ji <= Len(jobs)
    /\ pc' = "for"
    /\ ri' = 1
    /\ budget' = IF max_files = None THEN None ELSE Some(FileBudget(max_files))
    /\ UNCHANGED <<ji, root, stack, files, _printed_paths, out, ops>>
    /\ UNCHANGED_config /\ UNCHANGED_others

NextAgain ==
    \/ RunAgain
    \/ ForBudgetSpent
    \/ ForExhausted
    \/ ForResolveRoot
    \/ WhileStackEmpty
    \/ WhileBudgetSpent
    \/ ListNotADirectory
    \/ ListFileNotFound
    \/ ListRaises
    \/ ListEntries
    \/ HandleNextFile
    \/ FilesDone

SpecAgain == InitAgain /\ [][NextAgain]_vars

(***************************************************************************)
(* run() over the tree at the working directory and at its second place    *)
(***************************************************************************)

MovedRootSpecs == {".", Moved, "a.py", Moved \o "/a.py", "gone"}

\* run(roots, writer, budget) on a filesystem printer built as the tests
\* build it, with roots under the working directory and under Moved
InitMoved ==
    /\ api = "run"
    /\ max_files \in {None} \cup {Some(n) : n \in 1..MaxBudget}
    /\ include_empty \in BOOLEAN
    /\ only_headers \in BOOLEAN
    /\ \E rs \in SeqsUpTo(MovedRootSpecs, MaxRoots) : jobs = <<Job("fs", "", rs)>>
    /\ budget = IF max_files = None THEN None ELSE Some(FileBudget(max_files))
    /\ pc = "for"
    /\ ji = 1
    /\ ri = 1
    /\ root = ""
    /\ stack = <<>>
    /\ files = <<>>
    /\ _printed_paths = {}
    /\ out = <<>>
    /\ ops = <<>>
    /\ FilterIdle /\ EmptyIdle /\ HttpIdle /\ ExtIdle /\ OthersIdle

NextMoved ==
    \/ ForBudgetSpent
    \/ ForExhausted
    \/ ForResolveRoot
    \/ WhileStackEmpty
    \/ WhileBudgetSpent
    \/ ListNotADirectory
    \/ ListFileNotFound
    \/ ListEntries
    \/ HandleNextFile
    \/ FilesDone

SpecMoved == InitMoved /\ [][NextMoved]_vars

(***************************************************************************)
(* What a printer is to write, said without the walk                       *)
(***************************************************************************)

\* the path list_dir gives the entry of a tree node
EntryPath(a, rel) == IF a = "fs" THEN Cwd \o "/" \o rel ELSE rel

\* rel lies below directory d of the tree
Below(rel, d) == rel # d /\ (d = "" \/ startswith(rel, d \o "/"))

\* the directories on the way from directory d down to the node rel
Between(d, rel) == {m \in Tree : m.kind = "dir" /\ Below(m.rel, d) /\ Below(rel, m.rel)}

\* the file passes the filters of the printer of job j: not excluded, of a
\* wanted extension, and not semantically empty unless empty files are wanted
PassesFilters(j, rel) ==
    LET a == jobs[j].adapter
        p == EntryPath(a, rel)
    IN /\ <<api, a, p>> \notin ExcludedTable
       /\ _extension_match(PathName(p), extensions)
       /\ include_empty \/ ~is_blob_semantically_empty(NodeAt(rel).blob)

\* the roots of job j
JobRoots(j) == IF Len(jobs[j].roots) = 0 THEN <<".">> ELSE jobs[j].roots

\* the path and the tree path a root of job j resolves to
RootPath(j, root_spec) ==
    IF jobs[j].adapter = "fs" THEN fs_resolve_root(root_spec) ELSE gh_resolve_root(root_spec)
RootRel(j, root_spec) ==
    IF jobs[j].adapter = "fs" THEN FsRel(RootPath(j, root_spec))
    ELSE GhRel(RootPath(j, root_spec))

\* the keys of the files a root of job j stands for: the root itself when
\* it is a file, else the files of its tree that pass the filters and lie
\* under no excluded directory
RootFiles(j, root_spec) ==
    LET a == jobs[j].adapter
        d == RootRel(j, root_spec)
    IN IF KindAt(d) = "missing" THEN {}
       ELSE IF KindAt(d) # "dir" THEN {RootPath(j, root_spec)}
       ELSE {EntryPath(a, n.rel) :
               n \in {f \in Tree :
                        /\ f.kind = "file"
                        /\ Below(f.rel, d)
                        /\ \A m \in Between(d, f.rel) :
                              <<api, a, EntryPath(a, m.rel)>> \notin ExcludedTable
                        /\ PassesFilters(j, f.rel)}}

\* the keys of the files job j is to write, a budget aside
Printable(j) == UNION {RootFiles(j, JobRoots(j)[i]) : i \in 1..Len(JobRoots(j))}

\* the files all the jobs are to write, each with its job
PrintableOfAll == UNION {{<<j, k>> : k \in Printable(j)} : j \in 1..Len(jobs)}

(***************************************************************************)
(* Properties of DepthFirstPrinter.run and prin.main                       *)
(***************************************************************************)

\* C1 (budget exactness at the engine): when run(roots, writer, budget) is
\* called with a FileBudget of K > 0 over roots that stand for more than K
\* files and returns, exactly K records have been written, and no adapter
\* operation (resolve_root, list_dir, is_empty, read_file_bytes) was made for
\* a root after the one the K-th record was written for.
C1_BudgetExactness ==
    (/\ api = "run"
     /\ pc = "done"
     /\ max_files # None
     /\ 0 < max_files[1]
     /\ max_files[1] < Cardinality(Printable(1)))
    => /\ Len(out) = max_files[1]
       /\ \A i \in 1..Len(ops) : ops[i].root <= out[max_files[1]].root

\* a run over two roots that a budget of 2 ended in its first root
C1_Witness ==
    /\ api = "run"
    /\ pc = "done"
    /\ max_files = Some(2)
    /\ Cardinality(Printable(1)) > 2
    /\ Len(jobs[1].roots) = 2
    /\ Len(out) = 2
    /\ out[2].root = 1

\* C2 (CLI budget): when main is given --max-files K and its input holds
\* more than K printable files, exactly K records are written.
C2_CliBudget ==
    (/\ api = "main"
     /\ pc = "done"
     /\ max_files # None
     /\ max_files[1] < Cardinality(PrintableOfAll))
    => Len(out) = max_files[1]

\* the number of records written for a key by the printer of job j
Written(j, key) ==
    Cardinality({i \in 1..Len(out) : out[i].job = j /\ out[i].key = key})

\* root r of job j names a file that lies in the tree of another root of
\* the job, a directory
RootAndReachable(j, r) ==
    /\ KindAt(RootRel(j, JobRoots(j)[r])) = "file"
    /\ \E d \in 1..Len(JobRoots(j)) :
          /\ d # r
          /\ KindAt(RootRel(j, JobRoots(j)[d])) = "dir"
          /\ Below(RootRel(j, JobRoots(j)[r]), RootRel(j, JobRoots(j)[d]))

\* C3 (at-most-once emission): no printer ever writes a path key twice; and
\* when run() returns with no budget spent, a file that is named as a root
\* and lies in the tree of another root has been written exactly once,
\* whichever root came first.
C3_AtMostOnce ==
    /\ \A i, k \in 1..Len(out) :
          (i # k /\ out[i].job = out[k].job) => out[i].key # out[k].key
    /\ (api = "run" /\ pc = "done" /\ ~BudgetSpent)
       => \A r \in 1..Len(JobRoots(1)) :
             RootAndReachable(1, r) => Written(1, RootPath(1, JobRoots(1)[r])) = 1

\* run(["a.py", "."]) has returned: a.py was met again in the listing of "."
C3_Witness ==
    /\ api = "run"
    /\ pc = "done"
    /\ ~BudgetSpent
    /\ jobs[1].roots \in {<<"a.py", ".">>, <<"a.py", "">>}
    /\ RootAndReachable(1, 1)
    /\ Written(1, RootPath(1, "a.py")) = 1
    /\ \E i \in 1..Len(ops) :
          ops[i].op = "list_dir" /\ ops[i].root = 2 /\ ops[i].exc = ""
    /\ Len(out) > 1

\* C4 (forced entry): whenever list_dir of a root raised NotADirectoryError
\* and the file was handled, the printer has written a record for that
\* file, whatever the exclusions, the extensions and include_empty, for the
\* filesystem adapter and the GitHub adapter alike.
C4_ForcedEntry ==
    \A i \in 1..Len(ops) :
       (ops[i].op = "list_dir" /\ ops[i].exc = "NotADirectoryError")
       => Written(ops[i].job, ops[i].arg) = 1

\* the GitHub printer, include_empty false, has written build/x.o (excluded,
\* of no wanted extension) and e.py (semantically empty), both named as roots
C4_Witness ==
    /\ api = "run"
    /\ pc = "done"
    /\ jobs[1].adapter = "gh"
    /\ jobs[1].roots = <<"build/x.o", "e.py">>
    /\ ~include_empty
    /\ ~PassesFilters(1, "build/x.o")
    /\ ~PassesFilters(1, "e.py")
    /\ Written(1, "build/x.o") = 1
    /\ Written(1, "e.py") = 1

\* the order of the sort of run(): key x does not come after key y
NotAfter(x, y) == ~StrLess(casefold(y), casefold(x))

\* Whether the walk of one root may write p before q.  The two paths part
\* after their common directory: siblings come in ascending casefold order,
\* each subdirectory fully before the next; a directory's own file comes
\* before the records of its subdirectories if files_first, after them
\* otherwise.
WalkOrder(p, q, files_first) ==
    LET a == Split(p)
        b == Split(q)
        n == CommonLen(a, b)
        p_own == Len(a) = n + 1
        q_own == Len(b) = n + 1
    IN IF p_own /\ ~q_own THEN files_first
       ELSE IF ~p_own /\ q_own THEN ~files_first
       ELSE NotAfter(a[n + 1], b[n + 1])

FilesFirstOrder(p, q) == WalkOrder(p, q, TRUE)
DirsFirstOrder(p, q) == WalkOrder(p, q, FALSE)

\* two records written in the walk of one root, the first before the second
SameWalk(i, k) == i < k /\ out[i].job = out[k].job /\ out[i].root = out[k].root

MissingPath(o) ==
    KindAt(IF jobs[o.job].adapter = "fs" THEN FsRel(o.arg) ELSE GhRel(o.arg)) = "missing"

\* C9 (missing path): a list_dir of a path that does not exist raises
\* nothing out of run(): the path is skipped and the walk goes on.
C9_MissingPathSkipped ==
    \A i \in 1..Len(ops) :
       (ops[i].op = "list_dir" /\ MissingPath(ops[i]))
       => /\ ops[i].exc = "FileNotFoundError"
          /\ ~(pc = "raised" /\ i = Len(ops))

\* main was given local paths and GitHub URLs together
MixedSources ==
    /\ \E j \in 1..Len(jobs) : jobs[j].adapter = "fs"
    /\ \E j \in 1..Len(jobs) : jobs[j].adapter = "gh"

\* C13 (shared budget across sources): when main is given --max-files K
\* with local paths and GitHub URLs together, the records written by the
\* filesystem printer and the remote printers together never exceed K.
C13_SharedBudget ==
    (api = "main" /\ max_files # None /\ MixedSources) => Len(out) <= max_files[1]

\* the keys of the records the printer of job j has written
KeysWritten(j) == {out[i].key : i \in {k \in 1..Len(out) : out[k].job = j}}

\* x comes before y, or with it, in the order of the printers and of the
\* roots of one printer
RootNotAfter(x, y) == x.job < y.job \/ (x.job = y.job /\ x.root <= y.root)

\* C14 (root ordering): within one run() the records, and the adapter
\* operations, come in the order of the roots, never one of an earlier root
\* after one of a later root (each next to the one before it, so all of
\* them); and whenever the for loop of run() is to take its next root with
\* the budget not spent, every file the roots before stand for has been
\* written.
C14_RootOrder ==
    /\ \A i \in 1..(Len(out) - 1) : RootNotAfter(out[i], out[i + 1])
    /\ \A i \in 1..(Len(ops) - 1) : RootNotAfter(ops[i], ops[i + 1])
    /\ (pc = "for" /\ ~BudgetSpent)
       => \A r \in 1..Len(JobRoots(ji)) :
             r < ri => RootFiles(ji, JobRoots(ji)[r]) \subseteq KeysWritten(ji)

\* run(["doc", "."]) has returned with no budget: the files of doc first,
\* then those of the rest of "."
C14_Witness ==
    /\ api = "run"
    /\ pc = "done"
    /\ budget = None
    /\ jobs[1].roots \in {<<"doc", ".">>, <<"doc", "">>}
    /\ Len(out) >= 3
    /\ out[1].root = 1 /\ out[1].path = "r.md"
    /\ out[Len(out)].root = 2
    /\ \E i \in 1..Len(ops) : ops[i].op = "list_dir" /\ ops[i].root = 2

\* the listings of the tree's root directory that a printer has made
RootListings == {i \in 1..Len(ops) : /\ ops[i].op = "list_dir"
                                     /\ ops[i].exc = ""
                                     /\ ops[i].arg \in {Cwd, "."}}

\* the printer of job j has written the file LICENSE of the tree's root
LicenseWritten(j) == EntryPath(jobs[j].adapter, "LICENSE") \in KeysWritten(j)

\* C16 (extensionless files by default): when main, given no -e, has
\* returned, every printer that listed the directory holding LICENSE has
\* written LICENSE.
C16_ExtensionlessByDefault ==
    (api = "main" /\ pc = "done")
    => \A i \in RootListings : LicenseWritten(ops[i].job)

\* the extension list main resolves when given no -e; whether the name
\* LICENSE matches it, as it is and with the extensionless sentinel added
DefaultExtensions == resolve_extensions(<<>>, FALSE)
LicenseMatchesDefault == _extension_match("LICENSE", DefaultExtensions)
LicenseMatchesEnabled ==
    _extension_match("LICENSE", Append(DefaultExtensions, EXTENSIONLESS_SENTINEL))

\* the keys of LICENSE for the two adapters
LicenseKeys == {EntryPath("fs", "LICENSE"), EntryPath("gh", "LICENSE")}

RelOf(j, path) == IF jobs[j].adapter = "fs" THEN FsRel(path) ELSE GhRel(path)

\* the tree node rel is a directory that an exclusion rule of the printer
\* of job j matches
ExcludedDirectory(j, rel) ==
    /\ KindAt(rel) = "dir"
    /\ rel # ""
    /\ <<api, jobs[j].adapter, EntryPath(jobs[j].adapter, rel)>> \in ExcludedTable

\* C18 (excluded-directory pruning): a directory entry that an exclusion
\* rule matches is never listed, and no record is written for a file that
\* lies beneath such a directory of the root at work (build/x.o under the
\* rule build): the record just written is not, so none is; and when a walk
\* of the whole tree with no budget has returned, the files Src/m.py and
\* doc/r.md of the sibling directories have been written.
C18_ExcludedDirectoryPruned ==
    /\ \A i \in 1..Len(ops) :
          (/\ ops[i].op = "list_dir"
           /\ ops[i].exc = ""
           /\ <<api, jobs[ops[i].job].adapter, ops[i].arg>> \in ExcludedTable)
          => ops[i].arg = RootPath(ops[i].job, JobRoots(ops[i].job)[ops[i].root])
    /\ out # <<>>
       => LET rec == out[Len(out)]
          IN \A m \in Between(RootRel(rec.job, JobRoots(rec.job)[rec.root]),
                              RelOf(rec.job, rec.key)) :
                ~ExcludedDirectory(rec.job, m.rel)
    /\ (pc = "done" /\ budget = None)
       => \A i \in RootListings :
             /\ EntryPath(jobs[ops[i].job].adapter, "Src/m.py") \in KeysWritten(ops[i].job)
             /\ EntryPath(jobs[ops[i].job].adapter, "doc/r.md") \in KeysWritten(ops[i].job)

\* main(["."]) has returned: the listing of the root held build, which was
\* never listed, and Src/m.py and doc/r.md were written
C18_Witness ==
    /\ api = "main"
    /\ pc = "done"
    /\ jobs = <<Job("fs", "", <<".">>)>>
    /\ RootListings # {}
    /\ ExcludedDirectory(1, "build")
    /\ \A i \in 1..Len(ops) : ops[i].arg # EntryPath("fs", "build")
    /\ \A i \in 1..Len(out) : ~contains(out[i].path, "build")
    /\ {EntryPath("fs", "Src/m.py"), EntryPath("fs", "doc/r.md")} \subseteq KeysWritten(1)

\* the claim's words: the last component of a path, and a path below a
\* root written relative to it
BaseName(path) == Split(path)[Len(Split(path))]
RelativeTo(path, root_path) ==
    IF root_path = "." THEN path ELSE SubSeq(path, Len(root_path) + 2, Len(path))

\* the resolved path of the root a record was written for
RootOfRecord(rec) == RootPath(rec.job, JobRoots(rec.job)[rec.root])

\* C19 (display path): the path of every record is the path of the file
\* relative to the root it was written for, whatever the working
\* directory; the record of a root that is itself a file shows its base
\* name.  Said of the record just written, in every state, so of all.
C19_DisplayPath ==
    out # <<>>
    => LET rec == out[Len(out)]
           root_path == RootOfRecord(rec)
       IN IF rec.key = root_path
          THEN rec.path = BaseName(rec.key)
          ELSE /\ root_path # "."
                  => SubSeq(rec.key, 1, Len(root_path) + 1) = root_path \o "/"
               /\ rec.path = RelativeTo(rec.key, root_path)

\* run(["doc", "a.py"]) of the filesystem printer has returned: r.md and
\* sub/z.md of the root doc, a.py of the root a.py
C19_Witness ==
    /\ api = "run"
    /\ pc = "done"
    /\ jobs[1].adapter = "fs"
    /\ jobs[1].roots = <<"doc", "a.py">>
    /\ \E i, j, k \in 1..Len(out) :
          /\ out[i].key = Cwd \o "/doc/r.md" /\ out[i].path = "r.md"
          /\ out[j].key = Cwd \o "/doc/sub/z.md" /\ out[j].path = "sub/z.md"
          /\ out[k].key = Cwd \o "/a.py" /\ out[k].path = "a.py"

\* the records written in call j of run(), in order: kind, display path, key
RecordsOfCall(j) ==
    LET mine == SelectSeq(out, LAMBDA rec : rec.job = j)
    IN [i \in 1..Len(mine) |-> <<mine[i].kind, mine[i].path, mine[i].key>>]

\* C20 (run-scoped state): when run() has been called twice on one printer
\* with the same roots over the same tree and both calls have returned,
\* the second call has written the same records as the first.
C20_RunScopedState ==
    (api = "run" /\ pc = "done" /\ Len(jobs) = 2 /\ jobs[1] = jobs[2])
    => RecordsOfCall(2) = RecordsOfCall(1)

\* the file loop is about to handle files[1], an entry list_dir gave
HandlesTraversedFile == pc = "files" /\ files # <<>>

\* the budget has come down to zero
RemainingIsZero == budget # None /\ budget[1]._remaining = Some(0)

\* the entry passes the filters, this printer has not written it, and the
\* budget is not spent
MayEmit(entry) ==
    /\ PassesFilters(ji, RelOf(ji, entry.path))
    /\ entry.path \notin KeysWritten(ji)
    /\ ~RemainingIsZero

\* run() walked the whole tree from its top with no budget and has returned
WalkedWholeTree ==
    /\ api = "run" /\ pc = "done" /\ max_files = None
    /\ jobs[1].roots = <<IF jobs[1].adapter = "fs" THEN "." ELSE "">>

\* C21 (emission condition for traversed files): the file loop writes a
\* record for the entry it handles if and only if the entry is not
\* excluded, matches the extension filter, is not semantically empty unless
\* include_empty is set, has not been written yet and the budget is not
\* spent; and after a walk of the whole tree with no budget e.py (imports
\* and a docstring only) is written exactly when include_empty is set.
C21_EmissionCondition ==
    /\ [][HandlesTraversedFile => ((out' # out) <=> MayEmit(files[1]))]_vars
    /\ [](WalkedWholeTree
            => ((EntryPath(jobs[1].adapter, "e.py") \in KeysWritten(1)) <=> include_empty))

\* the file loop has just written e.py, found by list_dir, with
\* include_empty set
C21_Witness ==
    /\ include_empty
    /\ pc = "files"
    /\ out # <<>>
    /\ out[Len(out)].key = EntryPath(jobs[ji].adapter, "e.py")
    /\ RootOfRecord(out[Len(out)]) # out[Len(out)].key

\* C22 (immediate stop at zero): once the budget has come down to zero, no
\* step of run() performs an adapter operation or a write.
C22_ImmediateStop ==
    [][RemainingIsZero => (ops' = ops /\ out' = out)]_vars

\* the budget is at zero while files of the current directory are still to
\* be handled and directories are still on the stack
C22_Witness ==
    /\ RemainingIsZero
    /\ pc = "files" /\ files # <<>>
    /\ stack # <<>>

\* the adapter operation i of ops was not made before
NotMadeBefore(i) == \A k \in 1..(i - 1) : ops[k] # ops[i]

\* wherever the control has not come to its end, the guard of one of its
\* steps holds
NotStuck ==
    \/ Terminated
    \/ pc = "start" /\ (api = "main" \/ ji <= Len(jobs))
    \/ pc = "for"
    \/ pc = "while" /\ (stack = <<>> \/ BudgetSpent \/ CanPop)
    \/ pc = "files"

\* C25 (termination): run(), and main, come to an end; and within one root
\* no directory is listed twice and no file is asked about or read twice:
\* no adapter operation of a root is made a second time, and the files of
\* a listing still to be handled hold no entry twice.
C25_Termination ==
    /\ <>Terminated
    /\ [](/\ NotStuck
          /\ Len(ops) >= 1 => NotMadeBefore(Len(ops))
          /\ Len(ops) >= 2 => NotMadeBefore(Len(ops) - 1)
          /\ \A i \in 1..(Len(files) - 1) : files[i] # files[i + 1])

\* run() has returned after walking the whole tree and then doc again
C25_Witness ==
    /\ api = "run" /\ pc = "done" /\ max_files = None
    /\ jobs[1].adapter = "fs" /\ jobs[1].roots = <<".", "doc">>
    /\ \E i, k \in 1..Len(ops) :
          /\ ops[i].op = "list_dir" /\ ops[i].arg = Cwd \o "/doc" /\ ops[i].root = 1
          /\ ops[k].op = "list_dir" /\ ops[k].arg = Cwd \o "/doc" /\ ops[k].root = 2

\* C26 (determinism under listing order): two printers built alike that
\* have run over the same roots of the same tree, each given its listings
\* in an order of the adapter's choice, have written the same records in
\* the same order.
C26_ListingOrderIndependent ==
    (api = "main" /\ pc = "done" /\ Len(jobs) = 2 /\ jobs[1] = jobs[2])
    => RecordsOfCall(1) = RecordsOfCall(2)

\* the display paths of the records written for root r of the one job
PathsOfRoot(r) == {out[i].path : i \in {k \in 1..Len(out) : out[k].root = r}}

\* C27 (location independence of exclusion): run over the tree at the
\* working directory and then over the same tree at its second place, with
\* no budget, the printer has written the same display paths for both
\* roots.
C27_LocationIndependent ==
    (api = "run" /\ pc = "done" /\ max_files = None /\ jobs[1].roots = <<".", Moved>>)
    => PathsOfRoot(2) = PathsOfRoot(1)

\* the operation is a list_dir that raised NotADirectoryError, after which
\* run() handles the path with force=True
HandledForced(o) == o.op = "list_dir" /\ o.exc = "NotADirectoryError"

\* the path of the operation is the resolved root of the walk it was made in
OfItsRoot(o) == o.arg = RootPath(o.job, JobRoots(o.job)[o.root])

\* the tree kind of the node at a path of job j
KindOf(j, path) == KindAt(RelOf(j, path))

\* C28 (filter bypass only for roots): a path is handled with force=True
\* only when it is the resolved root of the walk; a record that is not for
\* the root of its walk is for a file that passes the exclusion, extension
\* and emptiness checks; and nothing of kind Other is written, listed,
\* asked about or read.
C28_BypassOnlyForRoots ==
    /\ \A i \in {Len(ops) - 1, Len(ops)} \cap (1..Len(ops)) :
          /\ HandledForced(ops[i]) => OfItsRoot(ops[i])
          /\ ops[i].op \in {"list_dir", "is_empty", "read_file_bytes"}
             => KindOf(ops[i].job, ops[i].arg) # "symlink"
    /\ out # <<>>
       => LET rec == out[Len(out)]
          IN /\ rec.key # RootOfRecord(rec)
                => PassesFilters(rec.job, RelOf(rec.job, rec.key))
             /\ KindOf(rec.job, rec.key) = "file"

\* a root that is an excluded binary file was written by force, and then
\* the tree, whose top holds a symlink, was walked to its end
C28_Witness ==
    /\ api = "run" /\ pc = "done" /\ max_files = None /\ include_empty
    /\ jobs[1].adapter = "fs" /\ jobs[1].roots = <<"build/x.o", ".">>
    /\ \E i \in 1..Len(out) : out[i].key = Cwd \o "/build/x.o" /\ out[i].root = 1
    /\ \E i \in 1..Len(ops) :
          ops[i].op = "list_dir" /\ ops[i].arg = Cwd /\ ops[i].exc = "" /\ ops[i].root = 2

\* C29 (URL routing consistency): main does not end in the ValueError of
\* GitHubRepoSource: whenever main has raised, the URL of the printer at
\* work, a token is_github_url sent to the remote adapter, is one that
\* _parse_owner_repo accepts.
C29_RoutedUrlsAccepted ==
    (api = "main" /\ pc = "raised")
    => (jobs[ji].adapter = "gh" => _parse_owner_repo_matches(jobs[ji].url))

\* the local tokens and the URL tokens of a command line, each in order
LocalGroup(paths) == SelectSeq(paths, LAMBDA tok : ~is_github_url(tok))
UrlGroup(paths) == SelectSeq(paths, LAMBDA tok : is_github_url(tok))

\* the printers js are one for the local tokens, if any, with the tokens
\* as its roots in order, and then one per URL token in order
Grouped(paths, js) ==
    LET nl == IF LocalGroup(paths) = <<>> THEN 0 ELSE 1
    IN /\ Len(js) = nl + Len(UrlGroup(paths))
       /\ nl = 1 => (js[1].adapter = "fs" /\ js[1].roots = LocalGroup(paths))
       /\ \A i \in 1..Len(UrlGroup(paths)) :
             js[nl + i].adapter = "gh" /\ js[nl + i].url = UrlGroup(paths)[i]

\* main groups every command line so
MainGroupsTokens == \A paths \in SeqsUpTo(MainTokens, MaxTokens) : Grouped(paths, MainJobs(paths))

\* C30 (mixed-source ordering in main): main runs one printer for the
\* local tokens, in their order, and then one per URL token, in their
\* order, wherever the tokens stand on the command line; the records are
\* written in the order of the printers; and each printer has a
\* Printed-Path Set of its own, holding the keys it has written and no
\* others.
C30_MixedSourceOrder ==
    api = "main"
    => /\ MainGroupsTokens
       /\ Len(out) >= 2 => out[Len(out) - 1].job <= out[Len(out)].job
       /\ pc \in {"for", "while", "files"} => _printed_paths = KeysWritten(ji)

\* main was given a URL and then a local path, and has written the record
\* of the local path before those of the URL
C30_Witness ==
    /\ api = "main" /\ pc = "done"
    /\ jobs = MainJobs(<<"https://github.com/o/r/doc", "a.py">>)
    /\ jobs[1].adapter = "fs" /\ jobs[2].adapter = "gh"
    /\ \E i, k \in 1..Len(out) :
          /\ i < k
          /\ out[i].job = 1 /\ out[i].key = Cwd \o "/a.py"
          /\ out[k].job = 2 /\ out[k].key = "doc/r.md"

\* The values the variables of the engine rest at in the specifications of
\* the single functions.
EngineIdle ==
    /\ api = "run" /\ max_files = None /\ include_empty = FALSE /\ only_headers = FALSE
    /\ jobs = <<>> /\ ji = 1 /\ pc = "done" /\ ri = 1 /\ root = "" /\ stack = <<>>
    /\ files = <<>> /\ _printed_paths = {} /\ budget = None /\ out = <<>> /\ ops = <<>>

(***************************************************************************)
(* filters.is_excluded called on its own                                   *)
(***************************************************************************)

MaxPathLen == 4
MaxRuleLen == 2

\* the strings of at most n characters of an alphabet
RECURSIVE Strings(_, _)
Strings(alphabet, n) ==
    IF n = 0 THEN {""}
    ELSE LET shorter == Strings(alphabet, n - 1)
         IN shorter \cup {x \o c : x \in shorter, c \in alphabet}

\* entry paths as a listing or a caller gives them: str() of a path, so in
\* pathlib's normal form; "!" stands for the characters _is_glob looks for
EntryInputs ==
    {x \in Strings({"a", ".", "/", "!"}, MaxPathLen) : x # "" /\ PurePosixPath(x) = x}
      \cup {"foo.py", "foo.pyc", "foo.py.bak", "foo/bar/baz", "fo!o/bar"}

\* rule strings: literals, extension-shaped literals, globs
RuleInputs ==
    (Strings({"a", ".", "/"}, MaxRuleLen) \ {""}) \cup {".py", "o/b", "*.a", "a?"}

\* exclusion lists: one rule, or a rule after a callable
ExcludeInputs ==
    {<<Lit(r)>> : r \in RuleInputs}
      \cup {<<Lambda("endswith", "egg-info"), Lit(r)>> : r \in RuleInputs}

InitFilter ==
    /\ f_entry \in EntryInputs
    /\ f_exclude \in ExcludeInputs
    /\ f_result = None
    /\ EngineIdle /\ EmptyIdle /\ HttpIdle /\ ExtIdle /\ OthersIdle

\* is_excluded(f_entry, exclude=f_exclude) is called and returns
CallIsExcluded ==
    /\ f_result = None
    /\ f_result' = Some(is_excluded(f_entry, f_exclude))
    /\ UNCHANGED <<f_entry, f_exclude, engine_vars, empty_vars, http_vars, ext_vars,
                   read_vars, count_vars>>

NextFilter == CallIsExcluded

SpecFilter == InitFilter /\ [][NextFilter]_vars

\* the claims' words for a rule string: it holds a glob metacharacter; it
\* is extension-shaped (starts with "." and holds no path separator)
HasGlobChar(r) == \E i \in 1..Len(r) : Ch(r, i) \in {"*", "?", "!", "[", "]"}
ExtensionShaped(r) == Len(r) > 0 /\ Ch(r, 1) = "." /\ ~HasChar(r, "/")

\* a rule of the list is a plain literal: a string with no glob
\* metacharacter that is not extension-shaped
PlainLiteral(rule) ==
    rule.kind = "str" /\ rule.s # "" /\ ~HasGlobChar(rule.s) /\ ~ExtensionShaped(rule.s)

\* C6 (literal substring exclusion): when the exclusion list holds a plain
\* literal rule L and the entry path contains L as a substring,
\* is_excluded returns True.
C6_LiteralSubstring ==
    (/\ f_result # None
     /\ \E i \in 1..Len(f_exclude) :
           PlainLiteral(f_exclude[i]) /\ contains(f_entry, f_exclude[i].s))
    => f_result = Some(TRUE)

\* the list is the one rule r, extension-shaped and no glob
ExtensionRuleAlone ==
    /\ Len(f_exclude) = 1
    /\ f_exclude[1].kind = "str"
    /\ ExtensionShaped(f_exclude[1].s)
    /\ ~HasGlobChar(f_exclude[1].s)

\* C7 (extension-shaped exclusion), as the code has it: an extension-shaped
\* literal rule excludes an entry only if the entry's base name or its stem
\* (the base name without its last suffix) ends with the rule, or the entry
\* path is the rule itself; ".py" excludes "foo.py" and "foo.py.bak" and
\* does not exclude "foo.pyc".
C7_SuffixOfNameOrStem ==
    (f_result # None /\ ExtensionRuleAlone)
    => /\ f_result = Some(TRUE)
          => \/ endswith(PathName(f_entry), f_exclude[1].s)
             \/ endswith(PathStem(f_entry), f_exclude[1].s)
             \/ f_entry = f_exclude[1].s
       /\ (f_exclude[1].s = ".py" /\ f_entry \in {"foo.py", "foo.py.bak"})
          => f_result = Some(TRUE)
       /\ (f_exclude[1].s = ".py" /\ f_entry = "foo.pyc")
          => f_result = Some(FALSE)

\* is_excluded("foo.py.bak", exclude=[".py"]) has returned True
C7_Witness ==
    /\ f_entry = "foo.py.bak"
    /\ f_exclude = <<Lit(".py")>>
    /\ f_result = Some(TRUE)

\* C7 as stated: an extension-shaped literal rule excludes no entry whose
\* base name does not end with the rule.
C7_SuffixOfNameOnly ==
    (f_result # None /\ ExtensionRuleAlone /\ f_result = Some(TRUE))
    => endswith(PathName(f_entry), f_exclude[1].s)

(***************************************************************************)
(* core.is_text_semantically_empty called on its own                       *)
(***************************************************************************)

MaxStmts == 2

\* top-level statements as ast.parse gives them: import os; from a import b;
\* __all__ = []; x = 1; __all__ = x = 1; a.__all__ = 1; a docstring; the
\* expression 1; a call; a function definition; x: int = 1; x += 1
StmtInputs ==
    { Stmt("Import", <<>>, NoValue),
      Stmt("ImportFrom", <<>>, NoValue),
      Stmt("Assign", <<Name("__all__")>>, NoValue),
      Stmt("Assign", <<Name("x")>>, NoValue),
      Stmt("Assign", <<Name("__all__"), Name("x")>>, NoValue),
      Stmt("Assign", <<Attribute("__all__")>>, NoValue),
      Stmt("Expr", <<>>, Constant("str")),
      Stmt("Expr", <<>>, Constant("int")),
      Stmt("Expr", <<>>, CallExpr),
      Stmt("FunctionDef", <<>>, NoValue),
      Stmt("AnnAssign", <<>>, NoValue),
      Stmt("AugAssign", <<>>, NoValue) }

\* texts: blank; one that does not parse; modules of at most MaxStmts
\* statements (none: a text of comments only)
TextInputs ==
    {Text(TRUE, TRUE, <<>>), Text(FALSE, FALSE, <<>>)}
      \cup {Text(FALSE, TRUE, b) : b \in UNION {[1..k -> StmtInputs] : k \in 0..MaxStmts}}

InitEmpty ==
    /\ e_text \in TextInputs
    /\ e_result = None
    /\ EngineIdle /\ FilterIdle /\ HttpIdle /\ ExtIdle /\ OthersIdle

\* is_text_semantically_empty(e_text) is called and returns
CallIsTextSemanticallyEmpty ==
    /\ e_result = None
    /\ e_result' = Some(is_text_semantically_empty(e_text))
    /\ UNCHANGED <<e_text, engine_vars, filter_vars, http_vars, ext_vars, read_vars,
                   count_vars>>

NextEmpty == CallIsTextSemanticallyEmpty

SpecEmpty == InitEmpty /\ [][NextEmpty]_vars

\* a statement that leaves a module semantically empty: an import, an
\* assignment whose single target is the name __all__, a bare string literal
LeavesEmpty(node) ==
    \/ node.type \in {"Import", "ImportFrom"}
    \/ node.type = "Assign" /\ node.targets = <<Name("__all__")>>
    \/ node.type = "Expr" /\ node.value = Constant("str")

\* C8 (emptiness classifier): is_text_semantically_empty returns True
\* exactly when the stripped text is empty, or the text parses and every
\* top-level statement is an import, an assignment whose single target is
\* __all__, or a bare string literal.
C8_EmptinessClassifier ==
    e_result # None
    => (e_result = Some(TRUE)
        <=> \/ e_text.blank
            \/ /\ e_text.parses
               /\ \A i \in 1..Len(e_text.body) : LeavesEmpty(e_text.body[i]))

(***************************************************************************)
(* The remote requests of adapters/github.py: _get, and the download of    *)
(* read_file_bytes, against a server that answers as it likes              *)
(***************************************************************************)

MAX_WAIT_SECONDS == 180

\* int(time.time()) at the moment a response is looked at
Now == 1000

\* int(float(s)) for decimal text (digits with at most one point): Some(n),
\* or None where float() raises ValueError
RECURSIVE DecimalValue(_)
DecimalValue(s) ==
    IF Len(s) = 0 THEN 0
    ELSE 10 * DecimalValue(SubSeq(s, 1, Len(s) - 1))
           + rfind("0123456789", Ch(s, Len(s)))

IntOfFloat(s) ==
    LET points == {i \in 1..Len(s) : Ch(s, i) = "."}
        p == IF points = {} THEN Len(s) + 1 ELSE CHOOSE i \in points : TRUE
        whole == SubSeq(s, 1, p - 1)
        frac == SubSeq(s, p + 1, Len(s))
        digits(x) == \A i \in 1..Len(x) : HasChar("0123456789", Ch(x, i))
    IN IF /\ Cardinality(points) <= 1
          /\ digits(whole) /\ digits(frac)
          /\ Len(whole) + Len(frac) > 0
       THEN Some(DecimalValue(whole))
       ELSE None

\* a response: its status code and the two headers the code reads, each
\* None when absent
Response(status, retry_after, reset) ==
    [status_code |-> status, retry_after |-> retry_after, reset |-> reset]

\* github._parse_rate_limit_wait_seconds
_parse_rate_limit_wait_seconds(resp) ==
    LET ra == resp.retry_after
        reset == resp.reset
    IN IF ra # None /\ ra[1] # "" /\ IntOfFloat(ra[1]) # None
       THEN IntOfFloat(ra[1])
       ELSE IF reset # None /\ reset[1] # "" /\ IntOfFloat(reset[1]) # None
       THEN LET reset_ts == IntOfFloat(reset[1])[1]
            IN Some(IF reset_ts - Now > 0 THEN reset_ts - Now ELSE 0)
       ELSE None

\* what a server may answer: Retry-After as delay-seconds or a date,
\* X-RateLimit-Reset as epoch seconds
Statuses == {200, 304, 403, 404, 429}
RetryAfterInputs == {None, Some("0"), Some("5"), Some("2.9"), Some("180"), Some("181"), Some("Wed")}
ResetInputs == {None, Some("995"), Some("1005"), Some("1181")}
Responses ==
    {Response(st, ra, rs) : st \in Statuses, ra \in RetryAfterInputs, rs \in ResetInputs}

\* the events of h_log
GetEvent == [ev |-> "get", secs |-> 0]
SleepEvent(secs) == [ev |-> "sleep", secs |-> secs]

\* how a request code ends: the response returned, or the exception raised
Returned(resp) == [how |-> "returned", resp |-> Some(resp)]
Raised(exc) == [how |-> exc, resp |-> None]

\* resp.status_code in (403, 429)
RateLimited(resp) == resp.status_code \in {403, 429}

\* 200 <= resp.status_code < 300
Is2xx(resp) == 200 <= resp.status_code /\ resp.status_code < 300

\* _get with the test of the attempt left out
IsFirstAttemptAlways(attempt) == TRUE

\* _get: attempt == 0
IsFirstAttempt(attempt) == attempt = 0

\* _get: the response closes the attempt by RuntimeError or by a sleep
RaisesTooLong(resp) ==
    /\ RateLimited(resp)
    /\ _parse_rate_limit_wait_seconds(resp) # None
    /\ _parse_rate_limit_wait_seconds(resp)[1] > MAX_WAIT_SECONDS
SleepsThenContinues(resp, attempt) ==
    /\ RateLimited(resp)
    /\ _parse_rate_limit_wait_seconds(resp) # None
    /\ _parse_rate_limit_wait_seconds(resp)[1] <= MAX_WAIT_SECONDS
    /\ IsFirstAttempt(attempt)

\* session.get answers resp
Got(resp) ==
    /\ h_resps' = Append(h_resps, resp)
    /\ UNCHANGED <<h_req, engine_vars, filter_vars, empty_vars, ext_vars, read_vars,
                   count_vars>>

InGet == h_req = "_get" /\ h_pc = "get" /\ h_attempt < 2

\* _get: a rate-limit answer whose wait exceeds MAX_WAIT_SECONDS raises
\* RuntimeError
GetRaisesRuntimeError ==
    /\ InGet
    /\ \E resp \in Responses :
          /\ RaisesTooLong(resp)
          /\ Got(resp)
    /\ h_log' = Append(h_log, GetEvent)
    /\ h_result' = Some(Raised("RuntimeError"))
    /\ h_pc' = "done"
    /\ UNCHANGED h_attempt

\* _get: a rate-limit answer on the first attempt: time.sleep(wait), continue
GetSleepsAndContinues ==
    /\ InGet
    /\ \E resp \in Responses :
          /\ SleepsThenContinues(resp, h_attempt)
          /\ Got(resp)
          /\ h_log' = h_log \o <<GetEvent, SleepEvent(_parse_rate_limit_wait_seconds(resp)[1])>>
    /\ h_attempt' = h_attempt + 1
    /\ UNCHANGED <<h_pc, h_result>>

\* _get: a 2xx answer is returned
GetReturns ==
    /\ InGet
    /\ \E resp \in Responses :
          /\ ~RaisesTooLong(resp) /\ ~SleepsThenContinues(resp, h_attempt)
          /\ Is2xx(resp)
          /\ Got(resp)
          /\ h_result' = Some(Returned(resp))
    /\ h_log' = Append(h_log, GetEvent)
    /\ h_pc' = "done"
    /\ UNCHANGED h_attempt

\* _get: resp.raise_for_status() raises
GetRaisesForStatus ==
    /\ InGet
    /\ \E resp \in Responses :
          /\ ~RaisesTooLong(resp) /\ ~SleepsThenContinues(resp, h_attempt)
          /\ ~Is2xx(resp)
          /\ raise_for_status(resp.status_code) # ""
          /\ Got(resp)
          /\ h_result' = Some(Raised(raise_for_status(resp.status_code)))
    /\ h_log' = Append(h_log, GetEvent)
    /\ h_pc' = "done"
    /\ UNCHANGED h_attempt

\* _get: an answer that is neither 2xx nor an error: raise_for_status()
\* raises nothing and the loop goes on
GetLoopsOn ==
    /\ InGet
    /\ \E resp \in Responses :
          /\ ~RaisesTooLong(resp) /\ ~SleepsThenContinues(resp, h_attempt)
          /\ ~Is2xx(resp)
          /\ raise_for_status(resp.status_code) = ""
          /\ Got(resp)
    /\ h_log' = Append(h_log, GetEvent)
    /\ h_attempt' = h_attempt + 1
    /\ UNCHANGED <<h_pc, h_result>>

\* _get: range(2) is exhausted, the last response is returned
GetLoopOver ==
    /\ h_req = "_get" /\ h_pc = "get" /\ h_attempt >= 2
    /\ h_result' = Some(Returned(h_resps[Len(h_resps)]))
    /\ h_pc' = "done"
    /\ UNCHANGED <<h_req, h_attempt, h_log, h_resps, engine_vars, filter_vars,
                   empty_vars, ext_vars, read_vars, count_vars>>

\* read_file_bytes: the download answers a rate limit with a wait of at
\* most MAX_WAIT_SECONDS: time.sleep(wait), and the download is asked again
DownloadSleeps ==
    /\ h_req = "download_url" /\ h_pc = "get"
    /\ \E r2 \in Responses :
          /\ RateLimited(r2)
          /\ _parse_rate_limit_wait_seconds(r2) # None
          /\ _parse_rate_limit_wait_seconds(r2)[1] <= MAX_WAIT_SECONDS
          /\ Got(r2)
          /\ h_log' = h_log \o <<GetEvent, SleepEvent(_parse_rate_limit_wait_seconds(r2)[1])>>
    /\ h_pc' = "retry"
    /\ UNCHANGED <<h_attempt, h_result>>

\* r2.raise_for_status(); return r2.content
DownloadEnds(r2) ==
    /\ h_result' = IF raise_for_status(r2.status_code) # ""
                   THEN Some(Raised(raise_for_status(r2.status_code)))
                   ELSE Some(Returned(r2))
    /\ h_log' = Append(h_log, GetEvent)
    /\ h_pc' = "done"
    /\ UNCHANGED h_attempt

\* read_file_bytes: the download answers anything else
DownloadAnswered ==
    /\ h_req = "download_url" /\ h_pc = "get"
    /\ \E r2 \in Responses :
          /\ ~(/\ RateLimited(r2)
               /\ _parse_rate_limit_wait_seconds(r2) # None
               /\ _parse_rate_limit_wait_seconds(r2)[1] <= MAX_WAIT_SECONDS)
          /\ Got(r2)
          /\ DownloadEnds(r2)

\* read_file_bytes: the second download, after the sleep
DownloadRetried ==
    /\ h_req = "download_url" /\ h_pc = "retry"
    /\ \E r2 \in Responses :
          /\ Got(r2)
          /\ DownloadEnds(r2)

InitHttp ==
    /\ h_req \in {"_get", "download_url"}
    /\ h_pc = "get"
    /\ h_attempt = 0
    /\ h_log = <<>>
    /\ h_resps = <<>>
    /\ h_result = None
    /\ EngineIdle /\ FilterIdle /\ EmptyIdle /\ ExtIdle /\ OthersIdle

NextHttp ==
    \/ GetRaisesRuntimeError
    \/ GetSleepsAndContinues
    \/ GetReturns
    \/ GetRaisesForStatus
    \/ GetLoopsOn
    \/ GetLoopOver
    \/ DownloadSleeps
    \/ DownloadAnswered
    \/ DownloadRetried

SpecHttp == InitHttp /\ [][NextHttp]_vars

\* the number of events of a kind in h_log
Count(ev) == Cardinality({i \in 1..Len(h_log) : h_log[i].ev = ev})

\* the first answer to the request is a rate limit (403 or 429) whose
\* computed wait is at most 180 seconds
FirstAnswerBidsWait ==
    /\ Len(h_resps) >= 1
    /\ h_resps[1].status_code \in {403, 429}
    /\ _parse_rate_limit_wait_seconds(h_resps[1]) # None
    /\ _parse_rate_limit_wait_seconds(h_resps[1])[1] <= 180

BeyondCeiling(resp) ==
    /\ resp.status_code \in {403, 429}
    /\ _parse_rate_limit_wait_seconds(resp) # None
    /\ _parse_rate_limit_wait_seconds(resp)[1] > 180

\* C11 (rate limit beyond the ceiling): in every remote fetch step, _get and
\* the download of read_file_bytes alike, an answer beyond the ceiling ends
\* the step at once, with no sleep after it, by the rate-limit-too-long
\* condition (the RuntimeError of _get).
C11_TooLongFailsEverywhere ==
    \A i \in 1..Len(h_resps) :
       BeyondCeiling(h_resps[i])
       => /\ i = Len(h_resps)
          /\ h_log[Len(h_log)] = GetEvent
          /\ h_result = Some(Raised("RuntimeError"))

\* C12 (read_file_bytes never raises): the download of
\* GitHubRepoSource.read_file_bytes, whatever the server answers, ends by
\* returning, never by an exception.
C12_ReadFileBytesNeverRaises ==
    (h_req = "download_url" /\ h_result # None) => h_result[1].how = "returned"

(***************************************************************************)
(* DepthFirstPrinter._extension_match called on its own                    *)
(***************************************************************************)

\* bare filenames, as Entry.name gives them
FilenameInputs ==
    (Strings({"a", "."}, MaxPathLen) \ {""})
      \cup {"LICENSE", "Dockerfile", "foo.py", "foo.pyc", "py", "x.json", ".jsonx",
            "foo.json5"}

\* patterns of an extension list: extensions with and without the dot, glob
\* patterns, the sentinel
PatternInputs ==
    Strings({"a", "."}, MaxRuleLen)
      \cup {".py", "py", ".json*", "*.a", "a?", "[a].a", EXTENSIONLESS_SENTINEL}

\* extension lists: none, one or two patterns
ExtensionsInputs ==
    {<<>>} \cup {<<p>> : p \in PatternInputs}
           \cup {<<p, q>> : p \in PatternInputs, q \in PatternInputs}

InitExt ==
    /\ x_filename \in FilenameInputs
    /\ x_extensions \in ExtensionsInputs
    /\ x_result = None
    /\ EngineIdle /\ FilterIdle /\ EmptyIdle /\ HttpIdle /\ OthersIdle

\* printer._extension_match(x_filename) is called on a printer whose
\* extensions are x_extensions, and returns
CallExtensionMatch ==
    /\ x_result = None
    /\ x_result' = Some(_extension_match(x_filename, x_extensions))
    /\ UNCHANGED <<x_filename, x_extensions, engine_vars, filter_vars, empty_vars,
                   http_vars, read_vars, count_vars>>

NextExt == CallExtensionMatch

SpecExt == InitExt /\ [][NextExt]_vars

\* the claim's words: the filename ends with "." followed by the pattern
\* without its leading dot
EndsWithDotted(filename, P) ==
    LET bare == IF Len(P) > 0 /\ Ch(P, 1) = "." THEN SubSeq(P, 2, Len(P)) ELSE P
        suffix == "." \o bare
    IN /\ Len(filename) >= Len(suffix)
       /\ SubSeq(filename, Len(filename) - Len(suffix) + 1, Len(filename)) = suffix

\* the claim's words: what one pattern matches
PatternMatches(filename, P) ==
    IF HasGlobChar(P) THEN fnmatch(filename, P)
    ELSE IF P = EXTENSIONLESS_SENTINEL THEN \A i \in 1..Len(filename) : Ch(filename, i) # "."
    ELSE EndsWithDotted(filename, P)

\* C15 (extension filter): an empty pattern list matches every filename; a
\* non-empty list matches the filenames one of its patterns matches, where
\* a glob-flavoured pattern matches by fnmatch against the bare filename,
\* the extensionless sentinel matches the filenames with no "." and any
\* other pattern P matches the filenames that end with "." and P without
\* its leading dot; so ".json*" matches ".jsonx" and not "foo.json5", and
\* "py" and ".py" match "foo.py" and not "foo.pyc" or "py".
C15_ExtensionFilter ==
    x_result # None
    => /\ x_extensions = <<>> => x_result = Some(TRUE)
       /\ x_extensions # <<>>
          => x_result = Some(\E i \in 1..Len(x_extensions) :
                                PatternMatches(x_filename, x_extensions[i]))
       /\ x_extensions = <<".json*">>
          => x_result = Some(x_filename = ".jsonx")
       /\ (x_extensions \in {<<"py">>, <<".py">>}
             /\ x_filename \in {"foo.py", "foo.pyc", "py", "LICENSE"})
          => x_result = Some(x_filename = "foo.py")
       /\ x_extensions = <<EXTENSIONLESS_SENTINEL>>
          => x_result = Some(x_filename \in {"a", "aa", "aaa", "aaaa", "aaaaa", "LICENSE",
                                             "Dockerfile", "py"})

\* _extension_match("a.a", [".a"]) and _extension_match("LICENSE", [sentinel,
\* ".py"]) have returned True
C15_Witness ==
    /\ x_result = Some(TRUE)
    /\ \/ x_filename = "a.a" /\ x_extensions = <<".a">>
       \/ x_filename = "LICENSE" /\ x_extensions = <<EXTENSIONLESS_SENTINEL, ".py">>

(***************************************************************************)
(* GitHubRepoSource.read_file_bytes called on its own (adapters/github.py) *)
(***************************************************************************)

\* base64.b64decode(content, validate=False) for the payloads at hand: the
\* bytes, or None where it raises binascii.Error (incorrect padding)
b64decode(content) ==
    IF content = "aGk=" THEN Some("hi")
    ELSE IF content = "eA==" THEN Some("x")
    ELSE None

\* what the contents call can answer for a file: encoding, content (none,
\* a payload, a payload that does not decode), download_url and sha
Infos ==
    [encoding : {"base64", "none"}, content : {"", "aGk=", "a"},
     download_url : {None, Some("https://raw/o/r/f")}, sha : {None, Some("0a1b")}]

\* what the download can answer in the end: a status and a body
Downloads == [status_code : {200, 403, 404}, content : {"", "raw"}]

\* what the blob call can answer
Datas == [encoding : {"base64", "none"}, content : {"", "eA==", "a"}]

\* how _get, and the r.json() after it, can fail: the wait is too long, the
\* answer is an HTTP error, the answer returned after the loop has no JSON
GetFailures == {"RuntimeError", "HTTPError", "JSONDecodeError"}

\* a request as g_log records it
Request(req, got) == [req |-> req, got |-> got]

\* info = r.json()
info == g_log[1].got.resp[1]

\* info.get("encoding") == "base64" and info.get("content")
HasBase64(json) == json.encoding = "base64" /\ json.content # ""

ReadEnds(result) ==
    /\ g_result' = Some(result)
    /\ g_pc' = "done"

UNCHANGED_but_read ==
    UNCHANGED <<engine_vars, filter_vars, empty_vars, http_vars, ext_vars, count_vars>>

\* r = _get(.../contents/{file_path}) returns, and r.json() is info
ContentsAnswered ==
    /\ g_pc = "contents"
    /\ \E json \in Infos : g_log' = Append(g_log, Request("contents", Returned(json)))
    /\ g_pc' = "inline"
    /\ UNCHANGED g_result /\ UNCHANGED_but_read

\* _get, or r.json(), raises
ContentsFails ==
    /\ g_pc = "contents"
    /\ \E exc \in GetFailures :
          /\ g_log' = Append(g_log, Request("contents", Raised(exc)))
          /\ ReadEnds(Raised(exc))
    /\ UNCHANGED_but_read

\* the inline payload is there and decodes: it is returned
InlineDecoded ==
    /\ g_pc = "inline"
    /\ HasBase64(info) /\ b64decode(info.content) # None
    /\ ReadEnds(Returned(b64decode(info.content)[1]))
    /\ UNCHANGED g_log /\ UNCHANGED_but_read

\* no inline payload, or one whose decoding raised inside suppress(Exception)
InlineSkipped ==
    /\ g_pc = "inline"
    /\ ~(HasBase64(info) /\ b64decode(info.content) # None)
    /\ g_pc' = "dl"
    /\ UNCHANGED <<g_log, g_result>> /\ UNCHANGED_but_read

\* if dl: the download is requested (once more after a sleep, if it bids a
\* wait within the ceiling); r2.raise_for_status(); return r2.content
DownloadRequested ==
    /\ g_pc = "dl"
    /\ info.download_url # None
    /\ \E r2 \in Downloads :
          /\ g_log' = Append(g_log, Request("download", Returned(r2)))
          /\ ReadEnds(IF r2.status_code = 200 THEN Returned(r2.content)
                      ELSE Raised("HTTPError"))
    /\ UNCHANGED_but_read

\* dl is None or empty
NoDownloadUrl ==
    /\ g_pc = "dl"
    /\ info.download_url = None
    /\ g_pc' = "sha"
    /\ UNCHANGED <<g_log, g_result>> /\ UNCHANGED_but_read

\* if sha: r3 = _get(.../git/blobs/{sha}) returns; the payload of data is
\* decoded and returned if there is one, else b"" is returned
BlobAnswered ==
    /\ g_pc = "sha"
    /\ info.sha # None
    /\ \E data \in Datas :
          /\ g_log' = Append(g_log, Request("blob", Returned(data)))
          /\ ReadEnds(IF HasBase64(data)
                      THEN IF b64decode(data.content) # None
                           THEN Returned(b64decode(data.content)[1])
                           ELSE Raised("binascii.Error")
                      ELSE Returned(""))
    /\ UNCHANGED_but_read

\* the _get of the blob, or r3.json(), raises
BlobFails ==
    /\ g_pc = "sha"
    /\ info.sha # None
    /\ \E exc \in GetFailures :
          /\ g_log' = Append(g_log, Request("blob", Raised(exc)))
          /\ ReadEnds(Raised(exc))
    /\ UNCHANGED_but_read

\* no sha: return b""
NoSha ==
    /\ g_pc = "sha"
    /\ info.sha = None
    /\ ReadEnds(Returned(""))
    /\ UNCHANGED g_log /\ UNCHANGED_but_read

InitRead ==
    /\ g_pc = "contents"
    /\ g_log = <<>>
    /\ g_result = None
    /\ EngineIdle /\ FilterIdle /\ EmptyIdle /\ HttpIdle /\ ExtIdle /\ CountIdle

NextRead ==
    \/ ContentsAnswered
    \/ ContentsFails
    \/ InlineDecoded
    \/ InlineSkipped
    \/ DownloadRequested
    \/ NoDownloadUrl
    \/ BlobAnswered
    \/ BlobFails
    \/ NoSha

SpecRead == InitRead /\ [][NextRead]_vars

\* the requests made, in order
Requested == [i \in 1..Len(g_log) |-> g_log[i].req]

\* the answer to the request req, which was made and answered
Answer(req) ==
    LET i == CHOOSE k \in 1..Len(g_log) : g_log[k].req = req IN g_log[i].got.resp[1]

\* the request req was made and answered
Answered(req) ==
    \E i \in 1..Len(g_log) : g_log[i].req = req /\ g_log[i].got.how = "returned"

\* a JSON answer carries a base64 payload that decodes
YieldsPayload(json) ==
    json.encoding = "base64" /\ json.content \in {"aGk=", "eA=="}

\* the contents call was answered and nothing asked yielded content: no
\* inline payload that decodes, and either a download that answered 200
\* with an empty body, or no download URL and a blob (if there is a sha)
\* that was answered with no payload that decodes
NoneYields ==
    /\ Answered("contents")
    /\ ~YieldsPayload(Answer("contents"))
    /\ IF Answer("contents").download_url # None
       THEN /\ Answered("download")
            /\ Answer("download").status_code = 200
            /\ Answer("download").content = ""
       ELSE Answer("contents").sha # None
            => (Answered("blob") /\ ~YieldsPayload(Answer("blob")))

\* the order of the steps: an inline payload that decodes is returned with
\* nothing else asked; the download is asked only without such a payload;
\* the blob only without a download URL; at most one of each is asked
FetchOrderKept ==
    (g_pc = "done" /\ Answered("contents"))
    => /\ YieldsPayload(Answer("contents"))
          => /\ Requested = <<"contents">>
             /\ g_result = Some(Returned(b64decode(Answer("contents").content)[1]))
       /\ Requested \in {<<"contents">>, <<"contents", "download">>, <<"contents", "blob">>}
       /\ Requested = <<"contents", "download">> => ~YieldsPayload(Answer("contents"))
       /\ Requested = <<"contents", "blob">>
          => (~YieldsPayload(Answer("contents")) /\ Answer("contents").download_url = None)

\* C23 (remote fetch fallback order): read_file_bytes returns the inline
\* payload when there is one, asks for the download only without it, for
\* the blob only without a download URL, never asks a later step after an
\* earlier one succeeded, and returns empty bytes when none of the three
\* yields content.
C23_FallbackOrder ==
    /\ FetchOrderKept
    /\ (g_pc = "done" /\ NoneYields) => g_result = Some(Returned(""))

(***************************************************************************)
(* FileBudget called on its own (core.py)                                  *)
(***************************************************************************)

MaxCalls == 4

\* a call as b_log records it: the method, what it returned (None for
\* consume) and budget._remaining after it
BudgetCall(method, value, b) == [method |-> method, value |-> value, remaining |-> b._remaining]

UNCHANGED_but_count ==
    UNCHANGED <<engine_vars, filter_vars, empty_vars, http_vars, ext_vars, read_vars>>

\* budget.consume()
CallConsume ==
    /\ Len(b_log) < MaxCalls
    /\ b_budget' = consume(b_budget)
    /\ b_log' = Append(b_log, BudgetCall("consume", None, consume(b_budget)))
    /\ UNCHANGED b_max_files /\ UNCHANGED_but_count

\* budget.spent()
CallSpent ==
    /\ Len(b_log) < MaxCalls
    /\ b_log' = Append(b_log, BudgetCall("spent", Some(spent(b_budget)), b_budget))
    /\ UNCHANGED <<b_max_files, b_budget>> /\ UNCHANGED_but_count

\* budget.available()
CallAvailable ==
    /\ Len(b_log) < MaxCalls
    /\ b_log' = Append(b_log, BudgetCall("available", Some(available(b_budget)), b_budget))
    /\ UNCHANGED <<b_max_files, b_budget>> /\ UNCHANGED_but_count

\* budget = FileBudget(max_files), for None, a negative number, zero and
\* the positive numbers up to MaxBudget
InitBudget ==
    /\ b_max_files \in {None} \cup {Some(n) : n \in (0 - 1)..MaxBudget}
    /\ b_budget = FileBudget(b_max_files)
    /\ b_log = <<>>
    /\ EngineIdle /\ FilterIdle /\ EmptyIdle /\ HttpIdle /\ ExtIdle /\ ReadIdle

NextBudget == CallConsume \/ CallSpent \/ CallAvailable

SpecBudget == InitBudget /\ [][NextBudget]_vars

\* the budget was built with None, zero or a negative number
BuiltUnlimited == b_max_files = None \/ b_max_files[1] <= 0

\* the count left before call i of b_log
RemainingBefore(i) == IF i = 1 THEN b_max_files ELSE b_log[i - 1].remaining

\* C24 (FileBudget): built with None, 0 or a negative max_files the budget
\* never reads as spent and always as available, whatever was consumed;
\* built with a positive max_files its remaining count is a number that
\* no call raises and that stays at or above zero, and available() is the
\* negation of spent().
C24_FileBudget ==
    /\ BuiltUnlimited
       => /\ ~spent(b_budget) /\ available(b_budget)
          /\ \A i \in 1..Len(b_log) :
                /\ b_log[i].method = "spent" => b_log[i].value = Some(FALSE)
                /\ b_log[i].method = "available" => b_log[i].value = Some(TRUE)
    /\ ~BuiltUnlimited
       => /\ b_budget._remaining # None
          /\ b_budget._remaining[1] >= 0
          /\ available(b_budget) = ~spent(b_budget)
          /\ \A i \in 1..Len(b_log) :
                /\ b_log[i].remaining # None
                /\ b_log[i].remaining[1] >= 0
                /\ b_log[i].remaining[1] <= RemainingBefore(i)[1]
                /\ b_log[i].method = "consume"
                   => b_log[i].remaining[1]
                        = IF RemainingBefore(i)[1] > 0 THEN RemainingBefore(i)[1] - 1 ELSE 0

\* FileBudget(0) after consume() calls still answers spent() with False
C24_Witness ==
    /\ b_max_files = Some(0)
    /\ Len(b_log) = 3
    /\ b_log[1].method = "consume" /\ b_log[2].method = "consume"
    /\ b_log[3].method = "spent" /\ b_log[3].value = Some(FALSE)

====
